---- MODULE Spec2Model ----
(***************************************************************************)
(* A model of the CEL interpreter of taichimaeda/cel-interpreter.          *)
(*                                                                         *)
(* The evaluator (src/src/interpreter.ts, lines 468-811) is a pure         *)
(* function of an expression tree and an activation.  It is modelled as a  *)
(* family of RECURSIVE operators that keep the names of the source         *)
(* functions; the state machine draws a tree and an activation from        *)
(* bounded sets and applies the evaluator to them.                         *)
(*                                                                         *)
(* Representation                                                          *)
(*  - a JavaScript number is a record [s, n, d]: sign, numerator and       *)
(*    denominator of a reduced fraction; d = 0 encodes Infinity (n = 1)    *)
(*    and NaN (n = 0); zero keeps its sign.  Rounding of IEEE doubles is   *)
(*    not modelled: every finite value is the exact rational.              *)
(*  - a JavaScript string is a sequence of one-character strings.          *)
(*  - a JavaScript value held in a field is a record with one field named  *)
(*    after its type: [number |-> ...], [string |-> ...], [boolean |-> ...],*)
(*    [null |-> ...], [array |-> ...] or [object |-> ...].                  *)
(*  - an object is a record [id, kind, value]; id is the identity of the   *)
(*    object (=== on objects compares ids).  An object allocated by the    *)
(*    evaluator is identified by the path of the tree node whose           *)
(*    evaluation allocated it; every node is evaluated at most once per    *)
(*    call, so paths are unique.  Objects of the activation have ids       *)
(*    that start with 0.                                                   *)
(*  - a thrown exception is the record Throw(message); the value           *)
(*    undefined is the record Undefined.                                   *)
(***************************************************************************)
EXTENDS Integers, Sequences, FiniteSets, TLC

VARIABLES
    pc,          \* the function about to be called, or "done" after the call
    program,     \* the string handed to lexer
    lexed,       \* the tokens handed to parser
    expr,        \* the expression tree handed to interpreter
    activation,  \* the activation handed to interpreter
    result       \* what the call returned or threw

vars == <<pc, program, lexed, expr, activation, result>>

(***************************************************************************)
(* Bounds of the model.                                                    *)
(***************************************************************************)
MaxInt == 2        \* integer literals range over -MaxInt..MaxInt
MaxOperands == 3   \* longest operand list of a binary-chain node

(***************************************************************************)
(* JavaScript numbers.                                                     *)
(***************************************************************************)
Abs(i) == IF i < 0 THEN -i ELSE i

RECURSIVE GCD(_, _)
GCD(a, b) == IF b = 0 THEN a ELSE GCD(b, a % b)

\* The number with sign s and magnitude n/d, reduced.
Norm(s, n, d) ==
    IF n = 0 /\ d = 0 THEN [s |-> 1, n |-> 0, d |-> 0]
    ELSE IF d = 0 THEN [s |-> s, n |-> 1, d |-> 0]
    ELSE IF n = 0 THEN [s |-> s, n |-> 0, d |-> 1]
    ELSE [s |-> s, n |-> n \div GCD(n, d), d |-> d \div GCD(n, d)]

Num(i) == [s |-> IF i < 0 THEN -1 ELSE 1, n |-> Abs(i), d |-> 1]
Frac(i, j) == Norm(IF i < 0 THEN -1 ELSE 1, Abs(i), j)
NaN == [s |-> 1, n |-> 0, d |-> 0]
Infinity == [s |-> 1, n |-> 1, d |-> 0]
NegZero == [s |-> -1, n |-> 0, d |-> 1]

IsNaN(a) == a.n = 0 /\ a.d = 0
IsInf(a) == a.n # 0 /\ a.d = 0
IsZero(a) == a.n = 0 /\ a.d # 0
IsInteger(a) == a.d = 1

\* unary -
NumNeg(a) == IF IsNaN(a) THEN a ELSE [a EXCEPT !.s = -a.s]

\* binary *
NumMul(a, b) == Norm(a.s * b.s, a.n * b.n, a.d * b.d)

\* binary /
NumDiv(a, b) == Norm(a.s * b.s, a.n * b.d, a.d * b.n)

\* binary +
NumAdd(a, b) ==
    IF IsNaN(a) \/ IsNaN(b) THEN NaN
    ELSE IF IsInf(a) /\ IsInf(b) THEN (IF a.s = b.s THEN a ELSE NaN)
    ELSE IF IsInf(a) THEN a
    ELSE IF IsInf(b) THEN b
    ELSE LET num == a.s * a.n * b.d + b.s * b.n * a.d
         IN  IF num = 0
             THEN [s |-> IF IsZero(a) /\ IsZero(b) /\ a.s = -1 /\ b.s = -1
                         THEN -1 ELSE 1,
                   n |-> 0, d |-> 1]
             ELSE Norm(IF num < 0 THEN -1 ELSE 1, Abs(num), a.d * b.d)

\* binary -
NumSub(a, b) == NumAdd(a, NumNeg(b))

\* binary %: the remainder has the sign of the dividend
NumRem(a, b) ==
    IF IsNaN(a) \/ IsNaN(b) \/ IsInf(a) \/ IsZero(b) THEN NaN
    ELSE IF IsInf(b) \/ IsZero(a) THEN a
    ELSE Norm(a.s, (a.n * b.d) % (b.n * a.d), a.d * b.d)

\* a < b on numbers
NumLess(a, b) ==
    IF IsNaN(a) \/ IsNaN(b) THEN FALSE
    ELSE IF IsInf(a) /\ IsInf(b) THEN a.s < b.s
    ELSE IF IsInf(a) THEN a.s < 0
    ELSE IF IsInf(b) THEN b.s > 0
    ELSE a.s * a.n * b.d < b.s * b.n * a.d

\* a === b on numbers: NaN differs from itself, +0 equals -0
NumEq(a, b) ==
    /\ ~IsNaN(a)
    /\ ~IsNaN(b)
    /\ a.n = b.n
    /\ a.d = b.d
    /\ (a.s = b.s \/ IsZero(a))

(***************************************************************************)
(* JavaScript strings: sequences of one-character strings, ordered by code *)
(* unit.  Ascii lists the printable characters from code 32 to code 126;    *)
(* the entry "grave" stands for code 96, which a TLA+ string cannot hold.   *)
(***************************************************************************)
Ascii ==
    <<" ", "!", "\"", "#", "$", "%", "&", "'", "(", ")", "*", "+", ",", "-",
      ".", "/", "0", "1", "2", "3", "4", "5", "6", "7", "8", "9", ":", ";",
      "<", "=", ">", "?", "@", "A", "B", "C", "D", "E", "F", "G", "H", "I",
      "J", "K", "L", "M", "N", "O", "P", "Q", "R", "S", "T", "U", "V", "W",
      "X", "Y", "Z", "[", "\\", "]", "^", "_", "grave", "a", "b", "c", "d", "e",
      "f", "g", "h", "i", "j", "k", "l", "m", "n", "o", "p", "q", "r", "s",
      "t", "u", "v", "w", "x", "y", "z", "{", "|", "}", "~">>

CharCode(c) == 31 + (CHOOSE i \in DOMAIN Ascii : Ascii[i] = c)

Digits == <<"0", "1", "2", "3", "4", "5", "6", "7", "8", "9">>

IsDigit(c) == \E i \in DOMAIN Digits : Digits[i] = c

DigitValue(c) == (CHOOSE i \in DOMAIN Digits : Digits[i] = c) - 1

\* a < b on strings
RECURSIVE StrLess(_, _)
StrLess(a, b) ==
    IF b = <<>> THEN FALSE
    ELSE IF a = <<>> THEN TRUE
    ELSE IF Head(a) = Head(b) THEN StrLess(Tail(a), Tail(b))
    ELSE CharCode(Head(a)) < CharCode(Head(b))

RECURSIVE DecimalValue(_, _)
DecimalValue(str, acc) ==
    IF str = <<>> THEN acc
    ELSE DecimalValue(Tail(str), 10 * acc + DigitValue(Head(str)))

\* ToNumber of a string: the empty string is 0, an optionally signed run of
\* decimal digits is its value, anything else is NaN.  (Strings of the model
\* hold no white space, no ".", no exponent and no "0x" prefix.)
StringToNumber(str) ==
    LET signed == str # <<>> /\ Head(str) \in {"-", "+"}
        body == IF signed THEN Tail(str) ELSE str
    IN  IF str = <<>> THEN Num(0)
        ELSE IF body = <<>> \/ \E i \in DOMAIN body : ~IsDigit(body[i]) THEN NaN
        ELSE [s |-> IF signed /\ Head(str) = "-" THEN -1 ELSE 1,
              n |-> DecimalValue(body, 0), d |-> 1]

RECURSIVE NatToString(_)
NatToString(n) ==
    IF n < 10 THEN <<Digits[n + 1]>>
    ELSE NatToString(n \div 10) \o <<Digits[(n % 10) + 1]>>

\* the digits of rem/d after the decimal point, at most k of them
RECURSIVE FractionDigits(_, _, _)
FractionDigits(rem, d, k) ==
    IF rem = 0 \/ k = 0 THEN <<>>
    ELSE <<Digits[((10 * rem) \div d) + 1]>> \o FractionDigits((10 * rem) % d, d, k - 1)

\* ToString of a number, as used for a property key.  A fraction that does
\* not terminate is cut after 16 digits.
NumberToString(a) ==
    IF IsNaN(a) THEN <<"N", "a", "N">>
    ELSE IF IsInf(a)
    THEN (IF a.s < 0 THEN <<"-">> ELSE <<>>) \o <<"I", "n", "f", "i", "n", "i", "t", "y">>
    ELSE IF IsZero(a) THEN <<"0">>
    ELSE (IF a.s < 0 THEN <<"-">> ELSE <<>>)
         \o NatToString(a.n \div a.d)
         \o (IF a.d = 1 THEN <<>> ELSE <<".">> \o FractionDigits(a.n % a.d, a.d, 16))

(***************************************************************************)
(* Values (src/src/interpreter.ts, lines 421-466) and the other things an  *)
(* evaluation can produce.                                                 *)
(***************************************************************************)
\* the JavaScript values a field can hold
Number(n) == [number |-> n]
String(str) == [string |-> str]
Boolean(b) == [boolean |-> b]
Array(elements) == [array |-> elements]
Object(properties) == [object |-> properties]

IntValue(v, id) == [id |-> id, kind |-> "IntValue", value |-> v]
UintValue(v, id) == [id |-> id, kind |-> "UintValue", value |-> v]
FloatValue(v, id) == [id |-> id, kind |-> "FloatValue", value |-> v]
StringValue(v, id) == [id |-> id, kind |-> "StringValue", value |-> v]
ByteValue(v, id) == [id |-> id, kind |-> "ByteValue", value |-> v]
BoolValue(v, id) == [id |-> id, kind |-> "BoolValue", value |-> v]
NullValue(id) == [id |-> id, kind |-> "NullValue", value |-> [null |-> "null"]]
ListValue(v, id) == [id |-> id, kind |-> "ListValue", value |-> v]
MapValue(v, id) == [id |-> id, kind |-> "MapValue", value |-> v]

\* the kinds of the union type Value
ValueKinds ==
    {"IntValue", "UintValue", "FloatValue", "StringValue", "ByteValue",
     "BoolValue", "NullValue", "ListValue", "MapValue"}

\* the JavaScript value undefined
Undefined == [id |-> <<0>>, kind |-> "undefined", value |-> [undefined |-> "undefined"]]

\* a thrown exception
Throw(message) == [id |-> <<0>>, kind |-> "throw", value |-> [message |-> message]]

IsThrow(r) == r.kind = "throw"

\* a primitive string, a primitive boolean and the object BUILTINS itself:
\* what a call of a function inherited by BUILTINS returns
PrimitiveString(str) ==
    [id |-> <<0, 0, 0, 1>> \o [i \in DOMAIN str |-> CharCode(str[i])],
     kind |-> "string", value |-> String(str)]
PrimitiveBoolean(b) ==
    [id |-> <<0, 0, 0, 2, IF b THEN 1 ELSE 0>>, kind |-> "boolean", value |-> Boolean(b)]
BuiltinsObject ==
    [id |-> <<0, 0, 0, 3>>, kind |-> "object", value |-> [builtins |-> "BUILTINS"]]

\* ToBoolean(v), the test of an if statement
Truthy(v) ==
    CASE v.kind = "undefined" -> FALSE
      [] v.kind = "boolean" -> v.value.boolean
      [] v.kind = "string" -> v.value.string # <<>>
      [] OTHER -> TRUE

\* what a helper that may also throw returns when it does not throw
Return(b) == [id |-> <<0>>, kind |-> "return", value |-> b]

\* The properties every plain object inherits from Object.prototype.
ObjectPrototypeKeys ==
    << <<"c", "o", "n", "s", "t", "r", "u", "c", "t", "o", "r">>,
       <<"t", "o", "S", "t", "r", "i", "n", "g">>,
       <<"v", "a", "l", "u", "e", "O", "f">>,
       <<"h", "a", "s", "O", "w", "n", "P", "r", "o", "p", "e", "r", "t", "y">>,
       <<"i", "s", "P", "r", "o", "t", "o", "t", "y", "p", "e", "O", "f">>,
       <<"t", "o", "L", "o", "c", "a", "l", "e", "S", "t", "r", "i", "n", "g">>,
       <<"p", "r", "o", "p", "e", "r", "t", "y", "I", "s", "E", "n", "u", "m",
         "e", "r", "a", "b", "l", "e">>,
       <<"_", "_", "p", "r", "o", "t", "o", "_", "_">> >>

IsInherited(name) == \E i \in DOMAIN ObjectPrototypeKeys : ObjectPrototypeKeys[i] = name

\* the function (or, for __proto__, the object) found under an inherited name
Inherited(name) ==
    [id |-> <<0, 0, CHOOSE i \in DOMAIN ObjectPrototypeKeys : ObjectPrototypeKeys[i] = name>>,
     kind |-> "inherited", value |-> [inherited |-> name]]

\* object[key] on a plain object whose own properties are the function own
GetProperty(own, key) ==
    IF key \in DOMAIN own THEN own[key]
    ELSE IF IsInherited(key) THEN Inherited(key)
    ELSE Undefined

\* array[index] for a number index
GetElement(array, index) ==
    IF IsInteger(index) /\ (index.s = 1 \/ IsZero(index)) /\ index.n < Len(array)
    THEN array[index.n + 1]
    ELSE Undefined

ObjectObject ==
    <<"[", "o", "b", "j", "e", "c", "t", " ", "O", "b", "j", "e", "c", "t", "]">>

\* the property key an entry key is converted to by Object.fromEntries
ToPropertyKey(v) ==
    IF v.kind = "undefined" THEN <<"u", "n", "d", "e", "f", "i", "n", "e", "d">>
    ELSE IF v.kind = "string" THEN v.value.string
    ELSE IF v.kind = "boolean"
    THEN (IF v.value.boolean THEN <<"t", "r", "u", "e">> ELSE <<"f", "a", "l", "s", "e">>)
    ELSE IF v.kind = "inherited" /\ v.value.inherited # ObjectPrototypeKeys[Len(ObjectPrototypeKeys)]
    THEN <<"f", "u", "n", "c", "t", "i", "o", "n", " ">> \o v.value.inherited
         \o <<"(", ")", " ", "{", " ", "[", "n", "a", "t", "i", "v", "e", " ",
              "c", "o", "d", "e", "]", " ", "}">>
    ELSE ObjectObject

\* Object.fromEntries(entries): a later entry overwrites an earlier one
FromEntries(entries) ==
    LET keys == {ToPropertyKey(entries[i].key) : i \in DOMAIN entries}
        last(k) == CHOOSE i \in DOMAIN entries :
                      /\ ToPropertyKey(entries[i].key) = k
                      /\ \A j \in DOMAIN entries :
                            ToPropertyKey(entries[j].key) = k => j <= i
    IN  [k \in keys |-> entries[last(k)].value]

\* typeof v.value, with "null" for null
ValueType(v) ==
    CASE v.kind \in {"IntValue", "UintValue", "FloatValue"} -> "number"
      [] v.kind \in {"StringValue", "ByteValue"} -> "string"
      [] v.kind = "BoolValue" -> "boolean"
      [] v.kind = "NullValue" -> "null"
      [] v.kind \in {"ListValue", "MapValue"} -> "object"
      [] OTHER -> "undefined"

\* left.value === right.value
StrictEquals(left, right) ==
    /\ ValueType(left) = ValueType(right)
    /\ CASE ValueType(left) = "number" -> NumEq(left.value.number, right.value.number)
         [] ValueType(left) = "string" -> left.value.string = right.value.string
         [] ValueType(left) = "boolean" -> left.value.boolean = right.value.boolean
         [] ValueType(left) = "object" -> left.id = right.id
         [] OTHER -> TRUE

\* ToNumber(v.value)
ToNumber(v) ==
    CASE ValueType(v) = "number" -> v.value.number
      [] ValueType(v) = "string" -> StringToNumber(v.value.string)
      [] ValueType(v) = "boolean" -> (IF v.value.boolean THEN Num(1) ELSE Num(0))
      [] ValueType(v) = "null" -> Num(0)
      [] OTHER -> NaN

\* left.value < right.value
LessThan(left, right) ==
    IF ValueType(left) = "string" /\ ValueType(right) = "string"
    THEN StrLess(left.value.string, right.value.string)
    ELSE NumLess(ToNumber(left), ToNumber(right))

\* a === b on two objects (or undefined)
SameObject(a, b) == a.id = b.id

(***************************************************************************)
(* Helpers for the array methods the evaluator uses.                       *)
(***************************************************************************)
\* array[i] for the 1-based position i; undefined outside the array
At(array, i) == IF i \in DOMAIN array THEN array[i] ELSE Undefined

\* array.map(f) aborts at the first element whose evaluation throws
HasThrow(results) == \E i \in DOMAIN results : IsThrow(results[i])

\* the exception of the last result that is one: what a map from the right
\* to the left would raise
LastThrow(results) ==
    results[CHOOSE i \in DOMAIN results :
                /\ IsThrow(results[i])
                /\ \A j \in (i + 1)..Len(results) : ~IsThrow(results[j])]

FirstThrow(results) ==
    results[CHOOSE i \in DOMAIN results :
                /\ IsThrow(results[i])
                /\ \A j \in 1..(i - 1) : ~IsThrow(results[j])]

\* the concatenation of the sequences parts[from], parts[from + 1], ...
RECURSIVE Concat(_, _)
Concat(parts, from) ==
    IF from > Len(parts) THEN <<>> ELSE parts[from] \o Concat(parts, from + 1)

\* acc && test, where test is the result of a call that may throw
AndAlso(acc, test) == IF acc THEN test ELSE Return(FALSE)

\* !test, where test is the result of a call that may throw
Not(test) == IF IsThrow(test) THEN test ELSE Return(~test.value)

(***************************************************************************)
(* Equality and ordering of values.                                        *)
(***************************************************************************)
RECURSIVE listValuesEqual(_, _), mapValuesEqual(_, _)

listValuesEqual(left, right) ==
    /\ Len(left.value.array) = Len(right.value.array)
    /\ \A i \in DOMAIN left.value.array :
          LET l == left.value.array[i]
              r == right.value.array[i]
          IN  IF l.kind = "ListValue" /\ r.kind = "ListValue"
              THEN listValuesEqual(l, r)
              ELSE IF l.kind = "MapValue" /\ r.kind = "MapValue"
              THEN mapValuesEqual(l, r)
              ELSE SameObject(l, r)

mapValuesEqual(left, right) ==
    IF DOMAIN left.value.object # DOMAIN right.value.object
    THEN FALSE
    ELSE \A key \in DOMAIN left.value.object :
            LET l == left.value.object[key]
                r == right.value.object[key]
            IN  IF l.kind = "ListValue" /\ r.kind = "ListValue"
                THEN listValuesEqual(l, r)
                ELSE SameObject(l, r)

valuesEqual(left, right) ==
    IF left.kind = "ListValue" /\ right.kind = "ListValue"
    THEN Return(listValuesEqual(left, right))
    ELSE IF left.kind = "MapValue" /\ right.kind = "MapValue"
    THEN Return(mapValuesEqual(left, right))
    ELSE IF left.kind = "undefined" \/ right.kind = "undefined"
    THEN Throw("TypeError: Cannot read properties of undefined")
    ELSE Return(StrictEquals(left, right))

valuesLessThan(left, right) ==
    IF left.kind = "ListValue" \/ right.kind = "ListValue"
    THEN Throw("List comparison is not implemented")
    ELSE IF left.kind = "MapValue" \/ right.kind = "MapValue"
    THEN Throw("Map comparison is not implemented")
    ELSE IF left.kind = "undefined" \/ right.kind = "undefined"
    THEN Throw("TypeError: Cannot read properties of undefined")
    ELSE Return(LessThan(left, right))

valuesLessThanOrEqual(left, right) ==
    LET less == valuesLessThan(left, right)
    IN  IF IsThrow(less) THEN less
        ELSE IF less.value THEN Return(TRUE)
        ELSE valuesEqual(left, right)

\* right.value.some(...): the first element that throws or is equal decides
valueInList(left, right) ==
    LET tests == [i \in DOMAIN right.value.array |->
                     valuesEqual(left, right.value.array[i])]
        decisive == {i \in DOMAIN tests : IsThrow(tests[i]) \/ tests[i].value}
    IN  IF decisive = {} THEN Return(FALSE)
        ELSE LET first == CHOOSE i \in decisive : \A j \in decisive : i <= j
             IN  IF IsThrow(tests[first]) THEN tests[first] ELSE Return(TRUE)

\* Object.keys(right.value).some(...): valuesEqual throws for every key or
\* for none, so the order of the keys does not matter
valueInMap(left, right) ==
    LET tests == [key \in DOMAIN right.value.object |->
                     valuesEqual(left, StringValue(String(key), <<0>>))]
    IN  IF \E key \in DOMAIN tests : IsThrow(tests[key])
        THEN tests[CHOOSE key \in DOMAIN tests : IsThrow(tests[key])]
        ELSE Return(\E key \in DOMAIN tests : tests[key].value)

(***************************************************************************)
(* The builtin functions (src/value-level/builtin.ts).                     *)
(***************************************************************************)
IsPrefix(str, prefix) ==
    /\ Len(prefix) <= Len(str)
    /\ SubSeq(str, 1, Len(prefix)) = prefix

IsSuffix(str, suffix) ==
    /\ Len(suffix) <= Len(str)
    /\ SubSeq(str, Len(str) - Len(suffix) + 1, Len(str)) = suffix

IsSubstring(str, part) ==
    \E from \in 1..(Len(str) - Len(part) + 1) :
        SubSeq(str, from, from + Len(part) - 1) = part

Size == <<"s", "i", "z", "e">>
StartsWith == <<"s", "t", "a", "r", "t", "s", "W", "i", "t", "h">>
EndsWith == <<"e", "n", "d", "s", "W", "i", "t", "h">>
Contains == <<"c", "o", "n", "t", "a", "i", "n", "s">>
Matches == <<"m", "a", "t", "c", "h", "e", "s">>

\* the own properties of the object BUILTINS
BUILTINS == {Size, StartsWith, EndsWith, Contains, Matches}

\* BUILTINS[method].length: the number of declared parameters; -1 stands for
\* undefined (BUILTINS.__proto__ is an object without a length)
FunctionLength(method) ==
    CASE method = Size -> 1
      [] method \in {StartsWith, EndsWith, Contains, Matches} -> 2
      [] method \in {ObjectPrototypeKeys[1], ObjectPrototypeKeys[4],
                     ObjectPrototypeKeys[5], ObjectPrototypeKeys[7]} -> 1
      [] method \in {ObjectPrototypeKeys[2], ObjectPrototypeKeys[3],
                     ObjectPrototypeKeys[6]} -> 0
      [] OTHER -> -1

builtinSize(object, id) ==
    IF object.kind \in {"StringValue", "ByteValue"}
    THEN IntValue(Number(Num(Len(object.value.string))), id)
    ELSE IF object.kind = "ListValue"
    THEN IntValue(Number(Num(Len(object.value.array))), id)
    ELSE IF object.kind = "MapValue"
    THEN IntValue(Number(Num(Cardinality(DOMAIN object.value.object))), id)
    ELSE Throw("size() requires a string, byte, list, or map")

builtinStartsWith(string, prefix, id) ==
    IF ~(prefix.kind = "StringValue" /\ string.kind = "StringValue")
    THEN Throw("startsWith() requires two strings")
    ELSE BoolValue(Boolean(IsPrefix(string.value.string, prefix.value.string)), id)

builtinEndsWith(string, suffix, id) ==
    IF ~(suffix.kind = "StringValue" /\ string.kind = "StringValue")
    THEN Throw("endsWith() requires two strings")
    ELSE BoolValue(Boolean(IsSuffix(string.value.string, suffix.value.string)), id)

builtinContains(string, pattern, id) ==
    IF ~(pattern.kind = "StringValue" /\ string.kind = "StringValue")
    THEN Throw("contains() requires two strings")
    ELSE BoolValue(Boolean(IsSubstring(string.value.string, pattern.value.string)), id)

\* new RegExp(pattern.value).test(string.value) for a pattern without
\* metacharacters, which is all the strings of the model hold
builtinMatches(string, pattern, id) ==
    IF ~(pattern.kind = "StringValue" /\ string.kind = "StringValue")
    THEN Throw("matches() requires two strings")
    ELSE BoolValue(Boolean(IsSubstring(string.value.string, pattern.value.string)), id)

\* a function of Object.prototype called with BUILTINS as its receiver
inheritedCall(method, args, id) ==
    CASE method = ObjectPrototypeKeys[1] ->
            \* Object(x) is x for an object and a new object otherwise
            IF args[1].kind \in {"undefined", "string", "boolean"}
            THEN [id |-> id, kind |-> "object", value |-> [wrapper |-> "Object"]]
            ELSE args[1]
      [] method \in {ObjectPrototypeKeys[2], ObjectPrototypeKeys[6]} ->
            PrimitiveString(ObjectObject)
      [] method = ObjectPrototypeKeys[3] -> BuiltinsObject
      [] method = ObjectPrototypeKeys[4] ->
            PrimitiveBoolean(ToPropertyKey(args[1]) \in BUILTINS)
      [] OTHER -> PrimitiveBoolean(FALSE)

builtin(method, args, id) ==
    IF (method \in BUILTINS \/ IsInherited(method)) /\ Len(args) = FunctionLength(method)
    THEN CASE method = Size -> builtinSize(args[1], id)
           [] method = StartsWith -> builtinStartsWith(args[1], args[2], id)
           [] method = EndsWith -> builtinEndsWith(args[1], args[2], id)
           [] method = Contains -> builtinContains(args[1], args[2], id)
           [] method = Matches -> builtinMatches(args[1], args[2], id)
           [] OTHER -> inheritedCall(method, args, id)
    ELSE Throw("Unknown builtin")

(***************************************************************************)
(* The evaluator (src/src/interpreter.ts, lines 468-811).  Every operator  *)
(* takes the node, the activation and the path of the node in the tree,    *)
(* and yields the value returned or the exception thrown.                  *)
(***************************************************************************)
IsNumeric(v) == v.kind \in {"IntValue", "UintValue", "FloatValue"}

\* ops.reduce(..., true) of evalRelExpr, from the operator at position i on
RECURSIVE relReduce(_, _, _, _)
relReduce(exprs, ops, i, acc) ==
    IF i > Len(ops) THEN Return(acc)
    ELSE LET left == At(exprs, i)
             right == At(exprs, i + 1)
             op == ops[i]
             step ==
                 CASE op = "==" -> AndAlso(acc, valuesEqual(left, right))
                   [] op = "!=" -> AndAlso(acc, Not(valuesEqual(left, right)))
                   [] op = "<" -> AndAlso(acc, valuesLessThan(left, right))
                   [] op = "<=" -> AndAlso(acc, valuesLessThanOrEqual(left, right))
                   [] op = ">" -> AndAlso(acc, Not(valuesLessThan(left, right)))
                   [] op = ">=" -> AndAlso(acc, Not(valuesLessThanOrEqual(left, right)))
                   [] op = "in" ->
                        IF right.kind = "ListValue"
                        THEN AndAlso(acc, valueInList(left, right))
                        ELSE IF right.kind = "MapValue"
                        THEN AndAlso(acc, valueInMap(left, right))
                        ELSE Throw("Unexpected operand")
                   [] OTHER -> Throw("Unexpected operator")
         IN  IF IsThrow(step) THEN step ELSE relReduce(exprs, ops, i + 1, step.value)

\* ops.reduce(..., 0) of evalAddExpr, from the operator at position i on:
\* the operator at (0-based) index i is applied to acc and exprs[i].value
RECURSIVE addReduce(_, _, _, _)
addReduce(exprs, ops, i, acc) ==
    IF i > Len(ops) THEN Return(acc)
    ELSE LET left == acc
             right == exprs[i].value.number
         IN  CASE ops[i] = "+" -> addReduce(exprs, ops, i + 1, NumAdd(left, right))
               [] ops[i] = "-" -> addReduce(exprs, ops, i + 1, NumSub(left, right))
               [] OTHER -> Throw("Unexpected operator")

\* ops.reduce(..., 1) of evalMultExpr
RECURSIVE multReduce(_, _, _, _)
multReduce(exprs, ops, i, acc) ==
    IF i > Len(ops) THEN Return(acc)
    ELSE LET left == acc
             right == exprs[i].value.number
         IN  CASE ops[i] = "*" -> multReduce(exprs, ops, i + 1, NumMul(left, right))
               [] ops[i] = "/" -> multReduce(exprs, ops, i + 1, NumDiv(left, right))
               [] ops[i] = "%" -> multReduce(exprs, ops, i + 1, NumRem(left, right))
               [] OTHER -> Throw("Unexpected operator")

\* ops.reduce(..., member.value) of evalUnaryExpr for the operator only
RECURSIVE unaryReduce(_, _, _, _)
unaryReduce(ops, i, acc, only) ==
    IF i > Len(ops) THEN Return(acc)
    ELSE IF ops[i] # only THEN Throw("Unexpected operator")
    ELSE unaryReduce(ops, i + 1, IF only = "-" THEN NumNeg(acc) ELSE ~acc, only)

\* a result that takes the kind of the first operand
PromoteFirst(exprs, value, id) == [id |-> id, kind |-> exprs[1].kind, value |-> value]

\* the kind of the result of an arithmetic node
Promote(exprs, value, id) ==
    IF \E i \in DOMAIN exprs : exprs[i].kind = "FloatValue"
    THEN FloatValue(value, id)
    ELSE IF \A i \in DOMAIN exprs : exprs[i].kind = "UintValue"
    THEN UintValue(value, id)
    ELSE IntValue(value, id)

evalIdent(ident, act) ==
    IF ~Truthy(GetProperty(act, ident.name))
    THEN Throw("Unexpected identifier")
    ELSE GetProperty(act, ident.name)

RECURSIVE evalExpr(_, _, _), evalTernaryExpr(_, _, _), evalOrExpr(_, _, _),
          evalAndExpr(_, _, _), evalRelExpr(_, _, _), evalAddExpr(_, _, _),
          evalMultExpr(_, _, _), evalUnaryExpr(_, _, _), evalMember(_, _, _),
          evalIndexExpr(_, _, _), evalFuncCallExpr(_, _, _), evalPrimary(_, _, _)

evalExpr(e, act, path) ==
    IF e.type = "TernaryExpr"
    THEN evalTernaryExpr(e, act, path)
    ELSE evalOrExpr(e, act, path)

\* a ternary that evaluates both branches before it selects one
evalTernaryExprEager(ternaryExpr, act, path) ==
    LET select(cond, then, els) ==
            IF IsThrow(cond) THEN cond
            ELSE IF IsThrow(then) THEN then
            ELSE IF IsThrow(els) THEN els
            ELSE IF Truthy(cond) THEN then
            ELSE els
    IN  select(evalOrExpr(ternaryExpr.cond, act, Append(path, 1)),
               evalOrExpr(ternaryExpr.then, act, Append(path, 2)),
               evalExpr(ternaryExpr.els, act, Append(path, 3)))

evalTernaryExpr(ternaryExpr, act, path) ==
    LET select(cond) ==
            IF IsThrow(cond) THEN cond
            ELSE IF Truthy(cond)
            THEN evalOrExpr(ternaryExpr.then, act, Append(path, 2))
            ELSE evalExpr(ternaryExpr.els, act, Append(path, 3))
    IN  select(evalOrExpr(ternaryExpr.cond, act, Append(path, 1)))

\* a logical or that stops at the first operand that is Bool(true)
evalOrExprShortCircuit(orExpr, act, path) ==
    LET or(exprs) ==
            IF \E k \in DOMAIN exprs :
                  /\ Len(exprs) >= 2
                  /\ exprs[k].kind = "BoolValue" /\ exprs[k].value.boolean
                  /\ \A j \in 1..(k - 1) : exprs[j].kind = "BoolValue"
            THEN BoolValue(Boolean(TRUE), path)
            ELSE IF HasThrow(exprs) THEN FirstThrow(exprs)
            ELSE IF Len(exprs) = 1 THEN exprs[1]
            ELSE IF ~\A i \in DOMAIN exprs : exprs[i].kind = "BoolValue"
            THEN Throw("Unexpected operands")
            ELSE BoolValue(Boolean(FALSE), path)
    IN  or([i \in DOMAIN orExpr.exprs |->
               evalAndExpr(orExpr.exprs[i], act, Append(path, i))])

evalOrExpr(orExpr, act, path) ==
    LET or(exprs) ==
            IF HasThrow(exprs) THEN FirstThrow(exprs)
            ELSE IF Len(exprs) = 1 THEN exprs[1]
            ELSE IF ~\A i \in DOMAIN exprs : exprs[i].kind = "BoolValue"
            THEN Throw("Unexpected operands")
            ELSE BoolValue(Boolean(\E i \in DOMAIN exprs : exprs[i].value.boolean), path)
    IN  or([i \in DOMAIN orExpr.exprs |->
               evalAndExpr(orExpr.exprs[i], act, Append(path, i))])

evalAndExpr(andExpr, act, path) ==
    LET and(exprs) ==
            IF HasThrow(exprs) THEN FirstThrow(exprs)
            ELSE IF Len(exprs) = 1 THEN exprs[1]
            ELSE IF ~\A i \in DOMAIN exprs : exprs[i].kind = "BoolValue"
            THEN Throw("Unexpected operands")
            ELSE BoolValue(Boolean(\A i \in DOMAIN exprs : exprs[i].value.boolean), path)
    IN  and([i \in DOMAIN andExpr.exprs |->
                evalRelExpr(andExpr.exprs[i], act, Append(path, i))])

evalRelExpr(relExpr, act, path) ==
    LET ops == relExpr.ops
        boolOf(value) ==
            IF IsThrow(value) THEN value ELSE BoolValue(Boolean(value.value), path)
        rel(exprs) ==
            IF HasThrow(exprs) THEN FirstThrow(exprs)
            ELSE IF Len(ops) = 0 THEN At(exprs, 1)
            ELSE boolOf(relReduce(exprs, ops, 1, TRUE))
    IN  rel([i \in DOMAIN relExpr.exprs |->
                evalAddExpr(relExpr.exprs[i], act, Append(path, i))])

evalAddExpr(addExpr, act, path) ==
    LET ops == addExpr.ops
        numberOf(exprs, value) ==
            IF IsThrow(value) THEN value ELSE Promote(exprs, Number(value.value), path)
        add(exprs) ==
            IF HasThrow(exprs) THEN FirstThrow(exprs)
            ELSE IF Len(ops) = 0 THEN At(exprs, 1)
            ELSE IF \A i \in DOMAIN exprs : exprs[i].kind = "ListValue"
            THEN (IF ~\A i \in DOMAIN ops : ops[i] = "+"
                  THEN Throw("Unexpected operators")
                  ELSE ListValue(Array(Concat([i \in DOMAIN exprs |-> exprs[i].value.array], 1)), path))
            ELSE IF \A i \in DOMAIN exprs : exprs[i].kind = "StringValue"
            THEN (IF ~\A i \in DOMAIN ops : ops[i] = "+"
                  THEN Throw("Unexpected operators")
                  ELSE StringValue(String(Concat([i \in DOMAIN exprs |-> exprs[i].value.string], 1)), path))
            ELSE IF \A i \in DOMAIN exprs : exprs[i].kind = "ByteValue"
            THEN (IF ~\A i \in DOMAIN ops : ops[i] = "+"
                  THEN Throw("Unexpected operators")
                  ELSE ByteValue(String(Concat([i \in DOMAIN exprs |-> exprs[i].value.string], 1)), path))
            ELSE IF \A i \in DOMAIN exprs : IsNumeric(exprs[i])
            THEN numberOf(exprs, addReduce(exprs, ops, 1, Num(0)))
            ELSE Throw("Unexpected operands")
    IN  add([i \in DOMAIN addExpr.exprs |->
                evalMultExpr(addExpr.exprs[i], act, Append(path, i))])

evalMultExpr(multExpr, act, path) ==
    LET ops == multExpr.ops
        numberOf(exprs, value) ==
            IF IsThrow(value) THEN value ELSE Promote(exprs, Number(value.value), path)
        mult(exprs) ==
            IF HasThrow(exprs) THEN FirstThrow(exprs)
            ELSE IF Len(ops) = 0 THEN At(exprs, 1)
            ELSE IF \A i \in DOMAIN exprs : IsNumeric(exprs[i])
            THEN numberOf(exprs, multReduce(exprs, ops, 1, Num(1)))
            ELSE Throw("Unexpected operands")
    IN  mult([i \in DOMAIN multExpr.exprs |->
                 evalUnaryExpr(multExpr.exprs[i], act, Append(path, i))])

\* evalUnaryExpr keeping the kind of an unsigned member
evalUnaryExprKeepingKind(unaryExpr, act, path) ==
    LET ops == unaryExpr.ops
        intOf(value, kind) ==
            IF IsThrow(value) THEN value
            ELSE [id |-> path, kind |-> kind, value |-> Number(value.value)]
        floatOf(value) ==
            IF IsThrow(value) THEN value ELSE FloatValue(Number(value.value), path)
        boolOf(value) ==
            IF IsThrow(value) THEN value ELSE BoolValue(Boolean(value.value), path)
        unary(member) ==
            IF IsThrow(member) THEN member
            ELSE IF Len(ops) = 0 THEN member
            ELSE IF member.kind \in {"IntValue", "UintValue"}
            THEN intOf(unaryReduce(ops, 1, member.value.number, "-"), member.kind)
            ELSE IF member.kind = "FloatValue"
            THEN floatOf(unaryReduce(ops, 1, member.value.number, "-"))
            ELSE IF member.kind = "BoolValue"
            THEN boolOf(unaryReduce(ops, 1, member.value.boolean, "!"))
            ELSE Throw("Unexpected operators")
    IN  unary(evalMember(unaryExpr.member, act, Append(path, 1)))

evalUnaryExpr(unaryExpr, act, path) ==
    LET ops == unaryExpr.ops
        intOf(value) ==
            IF IsThrow(value) THEN value ELSE IntValue(Number(value.value), path)
        floatOf(value) ==
            IF IsThrow(value) THEN value ELSE FloatValue(Number(value.value), path)
        boolOf(value) ==
            IF IsThrow(value) THEN value ELSE BoolValue(Boolean(value.value), path)
        unary(member) ==
            IF IsThrow(member) THEN member
            ELSE IF Len(ops) = 0 THEN member
            ELSE IF member.kind \in {"IntValue", "UintValue"}
            THEN intOf(unaryReduce(ops, 1, member.value.number, "-"))
            ELSE IF member.kind = "FloatValue"
            THEN floatOf(unaryReduce(ops, 1, member.value.number, "-"))
            ELSE IF member.kind = "BoolValue"
            THEN boolOf(unaryReduce(ops, 1, member.value.boolean, "!"))
            ELSE Throw("Unexpected operators")
    IN  unary(evalMember(unaryExpr.member, act, Append(path, 1)))

evalMember(member, act, path) ==
    IF member.type = "IndexExpr" THEN evalIndexExpr(member, act, path)
    ELSE IF member.type = "FuncCallExpr" THEN evalFuncCallExpr(member, act, path)
    ELSE evalPrimary(member, act, path)

evalIndexExpr(indexExpr, act, path) ==
    LET at(member, index) ==
            IF IsThrow(member) THEN member
            ELSE IF IsThrow(index) THEN index
            ELSE IF member.kind = "ListValue"
            THEN (IF ~(index.kind \in {"IntValue", "UintValue"})
                  THEN Throw("Unexpected index")
                  ELSE GetElement(member.value.array, index.value.number))
            ELSE IF member.kind = "MapValue"
            THEN (IF ~(index.kind \in {"StringValue", "IntValue", "UintValue"})
                  THEN Throw("Unexpected index")
                  ELSE GetProperty(member.value.object,
                                   IF index.kind = "StringValue"
                                   THEN index.value.string
                                   ELSE NumberToString(index.value.number)))
            ELSE Throw("Unexpected member")
    IN  at(evalMember(indexExpr.member, act, Append(path, 1)),
           evalExpr(indexExpr.index, act, Append(path, 2)))

evalFuncCallExpr(funcCallExpr, act, path) ==
    LET member == funcCallExpr.member
        call(args) ==
            IF member.type # "Ident" THEN Throw("Unexpected member")
            ELSE IF HasThrow(args) THEN FirstThrow(args)
            ELSE builtin(member.name, args, path)
    IN  call([i \in DOMAIN funcCallExpr.exprs |->
                 evalExpr(funcCallExpr.exprs[i], act, Append(path, i))])

evalPrimary(primary, act, path) ==
    LET list(values) ==
            IF HasThrow(values) THEN FirstThrow(values)
            ELSE ListValue(Array(values), path)
        \* parts holds key 1, value 1, key 2, value 2, ... in evaluation order
        map(parts) ==
            IF HasThrow(parts) THEN FirstThrow(parts)
            ELSE MapValue(Object(FromEntries(
                     [i \in DOMAIN primary.exprs |->
                         [key |-> parts[2 * i - 1], value |-> parts[2 * i]]])), path)
        \* the expressions of a list literal, or the keys and values of a map
        \* literal, in the order in which they are evaluated
        inner == IF primary.type = "ListExpr"
                 THEN primary.exprs
                 ELSE [i \in 1..(2 * Len(primary.exprs)) |->
                          IF i % 2 = 1
                          THEN primary.exprs[(i + 1) \div 2].key
                          ELSE primary.exprs[i \div 2].value]
    IN  CASE primary.type = "IntLit" -> IntValue(primary.value, path)
          [] primary.type = "UintLit" -> UintValue(primary.value, path)
          [] primary.type = "FloatLit" -> FloatValue(primary.value, path)
          [] primary.type = "StringLit" -> StringValue(primary.value, path)
          [] primary.type = "ByteLit" -> ByteValue(primary.value, path)
          [] primary.type = "BoolLit" -> BoolValue(primary.value, path)
          [] primary.type = "NullLit" -> NullValue(path)
          [] primary.type = "Ident" -> evalIdent(primary, act)
          [] primary.type = "ListExpr" ->
                list([i \in DOMAIN inner |-> evalExpr(inner[i], act, Append(path, i))])
          [] primary.type = "MapExpr" ->
                map([i \in DOMAIN inner |-> evalExpr(inner[i], act, Append(path, i))])
          [] OTHER -> evalExpr(primary, act, path)

interpreter(e, act) == evalExpr(e, act, <<1>>)

(***************************************************************************)
(* Expression trees (src/unnamed/part_000, lines 66-148).                  *)
(***************************************************************************)
TernaryExpr(cond, then, els) ==
    [type |-> "TernaryExpr", cond |-> cond, then |-> then, els |-> els]
OrExpr(exprs) == [type |-> "OrExpr", exprs |-> exprs]
AndExpr(exprs) == [type |-> "AndExpr", exprs |-> exprs]
RelExpr(exprs, ops) == [type |-> "RelExpr", exprs |-> exprs, ops |-> ops]
AddExpr(exprs, ops) == [type |-> "AddExpr", exprs |-> exprs, ops |-> ops]
MultExpr(exprs, ops) == [type |-> "MultExpr", exprs |-> exprs, ops |-> ops]
UnaryExpr(member, ops) == [type |-> "UnaryExpr", member |-> member, ops |-> ops]
IntLit(value) == [type |-> "IntLit", value |-> value]
UintLit(value) == [type |-> "UintLit", value |-> value]
FloatLit(value) == [type |-> "FloatLit", value |-> value]
StringLit(value) == [type |-> "StringLit", value |-> value]
ByteLit(value) == [type |-> "ByteLit", value |-> value]
BoolLit(value) == [type |-> "BoolLit", value |-> value]
NullLit == [type |-> "NullLit", value |-> [null |-> "null"]]

\* an element [key, value] of MapExpr.exprs
MapInit(key, value) == [key |-> key, value |-> value]
ListExpr(exprs) == [type |-> "ListExpr", exprs |-> exprs]
MapExpr(exprs) == [type |-> "MapExpr", exprs |-> exprs]
Ident(name) == [type |-> "Ident", name |-> name]
IndexExpr(member, index) == [type |-> "IndexExpr", member |-> member, index |-> index]
FuncCallExpr(member, exprs) == [type |-> "FuncCallExpr", member |-> member, exprs |-> exprs]

\* The chain of single-operand nodes the parser builds around a member
\* (parseMultiplication up to parseConditionalOr with no operator present).
MultOf(member) == MultExpr(<<UnaryExpr(member, <<>>)>>, <<>>)
AddOf(member) == AddExpr(<<MultOf(member)>>, <<>>)
RelOf(member) == RelExpr(<<AddOf(member)>>, <<>>)
AndOf(member) == AndExpr(<<RelOf(member)>>)
ExprOf(member) == OrExpr(<<AndOf(member)>>)

\* the same chain above a node of a given level
ExprOfUnary(unary) == OrExpr(<<AndExpr(<<RelExpr(<<AddExpr(<<MultExpr(<<unary>>, <<>>)>>, <<>>)>>, <<>>)>>)>>)
ExprOfMult(mult) == OrExpr(<<AndExpr(<<RelExpr(<<AddExpr(<<mult>>, <<>>)>>, <<>>)>>)>>)
ExprOfAdd(add) == OrExpr(<<AndExpr(<<RelExpr(<<add>>, <<>>)>>)>>)
ExprOfRel(rel) == OrExpr(<<AndExpr(<<rel>>)>>)
ExprOfAnd(and) == OrExpr(<<and>>)

\* newIdentExpr(name): the method name of a qualified call as an expression
newIdentExpr(name) ==
    OrExpr(<<AndExpr(<<RelExpr(<<AddExpr(<<MultExpr(<<UnaryExpr(Ident(name), <<>>)>>, <<>>)>>,
                                         <<>>)>>, <<>>)>>)>>)

\* the node parseMember builds for member.method(exprList): the method name
\* is put in front of the arguments and the receiver becomes the callee
MethodCall(member, method, exprList) ==
    FuncCallExpr(member, <<newIdentExpr(method)>> \o exprList)

(***************************************************************************)
(* Tokens (src/unnamed/part_001, lines 48-90).  A control, an operator or  *)
(* a keyword is held as a TLA+ string; an identifier is a sequence of      *)
(* characters; the value of a literal token is held as in a literal node.  *)
(***************************************************************************)
ControlToken(control) == [type |-> "ControlToken", control |-> control]
OperatorToken(operator) == [type |-> "OperatorToken", operator |-> operator]
IdentToken(ident) == [type |-> "IdentToken", ident |-> ident]
IntLitToken(value) == [type |-> "IntLitToken", value |-> value]
UintLitToken(value) == [type |-> "UintLitToken", value |-> value]
FloatLitToken(value) == [type |-> "FloatLitToken", value |-> value]
StringLitToken(value) == [type |-> "StringLitToken", value |-> value]
ByteLitToken(value) == [type |-> "ByteLitToken", value |-> value]
BoolLitToken(value) == [type |-> "BoolLitToken", value |-> value]
NullLitToken == [type |-> "NullLitToken", value |-> [null |-> "null"]]
ReservedToken(keyword) == [type |-> "ReservedToken", keyword |-> keyword]
WhitespaceToken == [type |-> "WhitespaceToken"]
CommentToken == [type |-> "CommentToken"]

(***************************************************************************)
(* The parser (src/unnamed/part_000).  A parse function returns            *)
(* [node, tokens], returns undefined, or does not return because the       *)
(* call stack overflows; the three outcomes are records of one shape.      *)
(***************************************************************************)
NoNode == [type |-> "none"]

\* return [node, tokens]
ParseReturn(node, tokens) ==
    [type |-> "return", node |-> node, tokens |-> tokens, message |-> "none"]

\* return undefined
ParseUndefined ==
    [type |-> "undefined", node |-> NoNode, tokens |-> <<>>, message |-> "none"]

\* throw new Error(message), or an exception raised by the engine
ParseThrow(message) ==
    [type |-> "throw", node |-> NoNode, tokens |-> <<>>, message |-> message]

\* what the engine raises when a function calls itself without end
StackOverflow == ParseThrow("RangeError: Maximum call stack size exceeded")

\* tokens[0]: the first token, or undefined past the end
First(tokens) == IF tokens = <<>> THEN [type |-> "undefined"] ELSE Head(tokens)

\* tokens.slice(1)
Slice1(tokens) == IF tokens = <<>> THEN <<>> ELSE Tail(tokens)

matchesControlToken(token, controls) ==
    token.type = "ControlToken" /\ token.control \in controls

matchesOperatorToken(token, operators) ==
    token.type = "OperatorToken" /\ token.operator \in operators

\* the number of leading elements of seq that pass Test
PrefixLen(seq, Test(_)) ==
    CHOOSE k \in 0..Len(seq) :
        /\ \A i \in 1..k : Test(seq[i])
        /\ k = Len(seq) \/ ~Test(seq[k + 1])

parseLiteral(tokens) ==
    LET token == First(tokens)
    IN  CASE token.type = "IntLitToken" -> ParseReturn(IntLit(token.value), Slice1(tokens))
          [] token.type = "UintLitToken" -> ParseReturn(UintLit(token.value), Slice1(tokens))
          [] token.type = "FloatLitToken" -> ParseReturn(FloatLit(token.value), Slice1(tokens))
          [] token.type = "StringLitToken" -> ParseReturn(StringLit(token.value), Slice1(tokens))
          [] token.type = "ByteLitToken" -> ParseReturn(ByteLit(token.value), Slice1(tokens))
          [] token.type = "BoolLitToken" -> ParseReturn(BoolLit(token.value), Slice1(tokens))
          [] token.type = "NullLitToken" -> ParseReturn(NullLit, Slice1(tokens))
          [] OTHER -> ParseUndefined

RECURSIVE parseExpr(_), parseConditionalOr(_), parseConditionalOrWhile(_, _),
          parseConditionalAnd(_), parseConditionalAndWhile(_, _),
          parseRelation(_), parseAddition(_), parseAdditionWhile(_, _, _),
          parseMultiplication(_), parseMultiplicationWhile(_, _, _),
          parseUnary(_), parseMember(_), parsePrimary(_),
          parseExprList(_), parseExprListWhile(_, _),
          parseMapInits(_), parseMapInitsWhile(_, _)

parseExpr(tokens) ==
    LET els(retCond, retThen, retEls) ==
            IF retEls.type # "return" THEN retEls
            ELSE ParseReturn(TernaryExpr(retCond.node, retThen.node, retEls.node),
                             retEls.tokens)
        then(retCond, retThen) ==
            IF retThen.type # "return" THEN retThen
            ELSE IF ~matchesControlToken(First(retThen.tokens), {":"})
            THEN ParseUndefined
            ELSE els(retCond, retThen, parseExpr(Slice1(retThen.tokens)))
        cond(retCond) ==
            IF retCond.type # "return" THEN retCond
            ELSE IF matchesControlToken(First(retCond.tokens), {"?"})
            THEN then(retCond, parseConditionalOr(Slice1(retCond.tokens)))
            ELSE retCond
    IN  cond(parseConditionalOr(tokens))

\* parseConditionalOr from the point where exprs holds the operands parsed so
\* far and tokens starts at the next operand: the operand is parsed and
\* pushed, and the while loop goes on if a "||" follows
parseConditionalOrWhile(exprs, tokens) ==
    LET body(retExpr) ==
            IF retExpr.type # "return" THEN retExpr
            ELSE IF matchesOperatorToken(First(retExpr.tokens), {"||"})
            THEN parseConditionalOrWhile(Append(exprs, retExpr.node),
                                         Slice1(retExpr.tokens))
            ELSE ParseReturn(OrExpr(Append(exprs, retExpr.node)), retExpr.tokens)
    IN  body(parseConditionalAnd(tokens))

parseConditionalOr(tokens) == parseConditionalOrWhile(<<>>, tokens)

\* parseConditionalAnd from the point where exprs holds the operands parsed
\* so far and tokens starts at the next operand
parseConditionalAndWhile(exprs, tokens) ==
    LET body(retExpr) ==
            IF retExpr.type # "return" THEN retExpr
            ELSE IF matchesOperatorToken(First(retExpr.tokens), {"&&"})
            THEN parseConditionalAndWhile(Append(exprs, retExpr.node),
                                          Slice1(retExpr.tokens))
            ELSE ParseReturn(AndExpr(Append(exprs, retExpr.node)), retExpr.tokens)
    IN  body(parseRelation(tokens))

parseConditionalAnd(tokens) == parseConditionalAndWhile(<<>>, tokens)

\* one optional operator: the source tests it with if, not with while
parseRelation(tokens) ==
    LET second(first, ret) ==
            IF ret.type # "return" THEN ret
            ELSE ParseReturn(RelExpr(<<first.node, ret.node>>,
                                     <<First(first.tokens).operator>>),
                             ret.tokens)
        first(ret) ==
            IF ret.type # "return" THEN ret
            ELSE IF matchesOperatorToken(First(ret.tokens),
                                         {"<", "<=", ">=", ">", "==", "!=", "in"})
            THEN second(ret, parseAddition(Slice1(ret.tokens)))
            ELSE ParseReturn(RelExpr(<<ret.node>>, <<>>), ret.tokens)
    IN  first(parseAddition(tokens))

\* parseAddition from the point where exprs and operators hold what was
\* parsed so far and tokens starts at the next operand
parseAdditionWhile(exprs, operators, tokens) ==
    LET body(ret) ==
            IF ret.type # "return" THEN ret
            ELSE IF matchesOperatorToken(First(ret.tokens), {"+", "-"})
            THEN parseAdditionWhile(Append(exprs, ret.node),
                                    Append(operators, First(ret.tokens).operator),
                                    Slice1(ret.tokens))
            ELSE ParseReturn(AddExpr(Append(exprs, ret.node), operators), ret.tokens)
    IN  body(parseMultiplication(tokens))

\* an addition that does not record the operator before its second operand
parseAdditionLosingOperator(tokens) ==
    LET lose(ret) ==
            IF ret.type = "return" /\ ret.node.ops # <<>>
            THEN ParseReturn(AddExpr(ret.node.exprs, Tail(ret.node.ops)), ret.tokens)
            ELSE ret
    IN  lose(parseAdditionWhile(<<>>, <<>>, tokens))

parseAddition(tokens) == parseAdditionWhile(<<>>, <<>>, tokens)

\* parseMultiplication from the point where exprs and operators hold what
\* was parsed so far and tokens starts at the next operand
parseMultiplicationWhile(exprs, operators, tokens) ==
    LET body(ret) ==
            IF ret.type # "return" THEN ret
            ELSE IF matchesOperatorToken(First(ret.tokens), {"*", "/", "%"})
            THEN parseMultiplicationWhile(Append(exprs, ret.node),
                                          Append(operators, First(ret.tokens).operator),
                                          Slice1(ret.tokens))
            ELSE ParseReturn(MultExpr(Append(exprs, ret.node), operators), ret.tokens)
    IN  body(parseUnary(tokens))

parseMultiplication(tokens) == parseMultiplicationWhile(<<>>, <<>>, tokens)

\* a unary that consumes the whole run of operators and records one
parseUnaryOnce(tokens) ==
    LET isFirstOperator(token) ==
            matchesOperatorToken(token, {First(tokens).operator})
        count == IF matchesOperatorToken(First(tokens), {"!", "-"})
                 THEN PrefixLen(tokens, isFirstOperator)
                 ELSE 0
        operators == [i \in 1..(IF count = 0 THEN 0 ELSE 1) |-> tokens[i].operator]
        member(ret) ==
            IF ret.type # "return" THEN ret
            ELSE ParseReturn(UnaryExpr(ret.node, operators), ret.tokens)
    IN  member(parseMember(SubSeq(tokens, count + 1, Len(tokens))))

parseUnary(tokens) ==
    LET isFirstOperator(token) ==
            matchesOperatorToken(token, {First(tokens).operator})
        \* the while loop consumes every leading token equal to the first one
        count == IF matchesOperatorToken(First(tokens), {"!", "-"})
                 THEN PrefixLen(tokens, isFirstOperator)
                 ELSE 0
        operators == [i \in 1..count |-> tokens[i].operator]
        member(ret) ==
            IF ret.type # "return" THEN ret
            ELSE ParseReturn(UnaryExpr(ret.node, operators), ret.tokens)
    IN  member(parseMember(SubSeq(tokens, count + 1, Len(tokens))))

\* When parsePrimary fails, parseMember calls itself with the same tokens:
\* the call repeats without end and the stack overflows.  When parsePrimary
\* succeeds, its result is returned at once.  The code after the self-call
\* (the suffixes ".", "(" and "[", lines 334-377) is therefore never run.
parseMember(tokens) ==
    LET primary(retPrimary) ==
            IF retPrimary.type # "undefined" THEN retPrimary
            ELSE StackOverflow
    IN  primary(parsePrimary(tokens))

parsePrimary(tokens) ==
    LET paren(retExpr) ==
            IF retExpr.type # "return" THEN retExpr
            ELSE IF ~matchesControlToken(First(retExpr.tokens), {")"})
            THEN ParseUndefined
            ELSE ParseReturn(retExpr.node, Slice1(retExpr.tokens))
        \* tokens after an optional ","
        skipComma(rest) ==
            IF matchesControlToken(First(rest), {","}) THEN Slice1(rest) ELSE rest
        list(retExprList) ==
            IF retExprList.type # "return" THEN retExprList
            ELSE IF ~matchesControlToken(First(skipComma(retExprList.tokens)), {"]"})
            THEN ParseUndefined
            ELSE ParseReturn(ListExpr(retExprList.node),
                             Slice1(skipComma(retExprList.tokens)))
        map(retMapInits) ==
            IF retMapInits.type # "return" THEN retMapInits
            ELSE IF ~matchesControlToken(First(skipComma(retMapInits.tokens)), {"}"})
            THEN ParseUndefined
            ELSE ParseReturn(MapExpr(retMapInits.node),
                             Slice1(skipComma(retMapInits.tokens)))
        token == First(tokens)
    IN  IF parseLiteral(tokens).type # "undefined" THEN parseLiteral(tokens)
        ELSE IF token.type = "IdentToken"
        THEN ParseReturn(Ident(token.ident), Slice1(tokens))
        ELSE IF matchesControlToken(token, {"("})
        THEN paren(parseExpr(Slice1(tokens)))
        ELSE IF matchesControlToken(token, {"["})
        THEN list(parseExprList(Slice1(tokens)))
        ELSE IF matchesControlToken(token, {"{"})
        THEN map(parseMapInits(Slice1(tokens)))
        ELSE ParseUndefined

\* the while loop of parseExprList: every element is preceded by a ","
parseExprListWhile(exprs, tokens) ==
    LET body(ret) ==
            IF ret.type # "return" THEN ret
            ELSE parseExprListWhile(Append(exprs, ret.node), ret.tokens)
    IN  IF matchesControlToken(First(tokens), {","})
        THEN body(parseExpr(Slice1(tokens)))
        ELSE IF Len(exprs) = 0 THEN ParseUndefined
        ELSE ParseReturn(exprs, tokens)

parseExprList(tokens) == parseExprListWhile(<<>>, tokens)

\* the while loop of parseMapInits: every entry is preceded by a ","
parseMapInitsWhile(mapInits, tokens) ==
    LET value(retKey, retValue) ==
            IF retValue.type # "return" THEN retValue
            ELSE parseMapInitsWhile(Append(mapInits, MapInit(retKey.node, retValue.node)),
                                    retValue.tokens)
        key(retKey) ==
            IF retKey.type # "return" THEN retKey
            ELSE IF ~matchesControlToken(First(retKey.tokens), {":"})
            THEN ParseUndefined
            ELSE value(retKey, parseExpr(Slice1(retKey.tokens)))
    IN  IF matchesControlToken(First(tokens), {","})
        THEN key(parseExpr(Slice1(tokens)))
        ELSE IF Len(mapInits) = 0 THEN ParseUndefined
        ELSE ParseReturn(mapInits, tokens)

parseMapInits(tokens) == parseMapInitsWhile(<<>>, tokens)

\* parser returns ret[0] alone: the tokens left in ret[1] are not looked at
parser(tokens) ==
    LET first(ret) ==
            IF ret.type = "undefined" THEN ParseThrow("Unexpected end of input")
            ELSE IF ret.type = "throw" THEN ret
            ELSE ParseReturn(ret.node, <<>>)
    IN  first(parseExpr(tokens))

(***************************************************************************)
(* The lexer (src/unnamed/part_001).  A lex function returns               *)
(* [token, rest] or undefined, or does not return: a loop that appends to  *)
(* a string without end stops when the engine refuses to grow the string,  *)
(* and a loop that changes nothing runs forever.                           *)
(***************************************************************************)
\* return [token, rest]
LexReturn(token, rest) ==
    [type |-> "return", token |-> token, rest |-> rest, message |-> "none"]

\* return undefined
LexUndefined ==
    [type |-> "undefined", token |-> [type |-> "none"], rest |-> <<>>, message |-> "none"]

\* str += input[0] repeated past the end of the input: what the engine raises
StringOverflow ==
    [type |-> "throw", token |-> [type |-> "none"], rest |-> <<>>,
     message |-> "RangeError: Invalid string length"]

\* while (true) with no exit left: the call never returns
LexForever ==
    [type |-> "forever", token |-> [type |-> "none"], rest |-> <<>>, message |-> "none"]

\* what lexer itself returns or throws; character is the offending character
LexerReturn(tokens) ==
    [type |-> "return", tokens |-> tokens, message |-> "none", character |-> "none"]

LexerThrow(message, character) ==
    [type |-> "throw", tokens |-> <<>>, message |-> message, character |-> character]

LexerForever ==
    [type |-> "forever", tokens |-> <<>>, message |-> "none", character |-> "none"]

CONTROLS == <<"?", ":", ".", "(", ")", "[", "]", "{", "}", ",">>

OPERATORS ==
    <<"||", "&&", "<", "<=", ">=", ">", "==", "!=", "in", "+", "-", "*", "/", "%", "!">>

RESERVED ==
    <<"as", "break", "const", "continue", "else", "for", "function", "if", "import",
      "let", "loop", "package", "namespace", "return", "var", "void", "while">>

\* the characters of a control, an operator or a keyword
Chars(word) ==
    CASE word = "||" -> <<"|", "|">>
      [] word = "&&" -> <<"&", "&">>
      [] word = "<=" -> <<"<", "=">>
      [] word = ">=" -> <<">", "=">>
      [] word = "==" -> <<"=", "=">>
      [] word = "!=" -> <<"!", "=">>
      [] word = "in" -> <<"i", "n">>
      [] word = "as" -> <<"a", "s">>
      [] word = "break" -> <<"b", "r", "e", "a", "k">>
      [] word = "const" -> <<"c", "o", "n", "s", "t">>
      [] word = "continue" -> <<"c", "o", "n", "t", "i", "n", "u", "e">>
      [] word = "else" -> <<"e", "l", "s", "e">>
      [] word = "for" -> <<"f", "o", "r">>
      [] word = "function" -> <<"f", "u", "n", "c", "t", "i", "o", "n">>
      [] word = "if" -> <<"i", "f">>
      [] word = "import" -> <<"i", "m", "p", "o", "r", "t">>
      [] word = "let" -> <<"l", "e", "t">>
      [] word = "loop" -> <<"l", "o", "o", "p">>
      [] word = "package" -> <<"p", "a", "c", "k", "a", "g", "e">>
      [] word = "namespace" -> <<"n", "a", "m", "e", "s", "p", "a", "c", "e">>
      [] word = "return" -> <<"r", "e", "t", "u", "r", "n">>
      [] word = "var" -> <<"v", "a", "r">>
      [] word = "void" -> <<"v", "o", "i", "d">>
      [] word = "while" -> <<"w", "h", "i", "l", "e">>
      [] word = "true" -> <<"t", "r", "u", "e">>
      [] word = "false" -> <<"f", "a", "l", "s", "e">>
      [] word = "null" -> <<"n", "u", "l", "l">>
      [] word = "0x" -> <<"0", "x">>
      [] word = "//" -> <<"/", "/">>
      [] word = "CRLF" -> <<"\r", "\n">>
      [] OTHER -> <<word>>

\* input.startsWith(word)
startsWith(input, word) == IsPrefix(input, Chars(word))

\* input[0]: the first character, or undefined past the end
CharAt0(input) == IF input = <<>> THEN "undefined" ELSE Head(input)

\* input.slice(n)
Slice(input, n) == SubSeq(input, n + 1, Len(input))

\* lo <= c && c <= hi on characters
CharInRange(c, lo, hi) ==
    \E i \in DOMAIN Ascii :
        /\ Ascii[i] = c
        /\ CharCode(lo) <= 31 + i
        /\ 31 + i <= CharCode(hi)

\* the first word of words that input starts with; 0 if there is none
FindWord(words, input) ==
    LET noMatch(word) == ~startsWith(input, word)
        skipped == PrefixLen(words, noMatch)
    IN  IF skipped = Len(words) THEN 0 ELSE skipped + 1

lexControl(input) ==
    LET i == FindWord(CONTROLS, input)
    IN  IF i = 0 THEN LexUndefined
        ELSE LexReturn(ControlToken(CONTROLS[i]), Slice(input, 1))

lexOperator(input) ==
    LET i == FindWord(OPERATORS, input)
    IN  IF i = 0 THEN LexUndefined
        ELSE LexReturn(OperatorToken(OPERATORS[i]), Slice(input, Len(Chars(OPERATORS[i]))))

isIdentStart(c) == CharInRange(c, "a", "z") \/ CharInRange(c, "A", "Z") \/ c = "_"

isIdentPart(c) == isIdentStart(c) \/ CharInRange(c, "0", "9")

lexIdent(input) ==
    IF ~isIdentStart(CharAt0(input)) THEN LexUndefined
    ELSE LET n == PrefixLen(input, isIdentPart)
         IN  LexReturn(IdentToken(SubSeq(input, 1, n)), Slice(input, n))

isDigit(c) == CharInRange(c, "0", "9")

isHexDigit(c) == CharInRange(c, "0", "9") \/ CharInRange(c, "a", "f") \/ CharInRange(c, "A", "F")

\* the value of a hexadecimal digit
HexDigitValue(c) ==
    IF isDigit(c) THEN DigitValue(c)
    ELSE IF CharInRange(c, "a", "f") THEN CharCode(c) - CharCode("a") + 10
    ELSE CharCode(c) - CharCode("A") + 10

\* parseInt(digits, 16)
RECURSIVE HexValue(_, _)
HexValue(digits, acc) ==
    IF digits = <<>> THEN acc
    ELSE HexValue(Tail(digits), 16 * acc + HexDigitValue(Head(digits)))

lexIntLitDec(input) ==
    LET positive == ~startsWith(input, "-")
        body == IF positive THEN input ELSE Slice(input, 1)
        n == PrefixLen(body, isDigit)
        digits == SubSeq(body, 1, n)
    IN  IF ~isDigit(CharAt0(body)) THEN LexUndefined
        ELSE LexReturn(
                 IntLitToken(Number(NumMul(Num(DecimalValue(digits, 0)),
                                           IF positive THEN Num(1) ELSE Num(-1)))),
                 Slice(body, n))

lexIntLitHex(input) ==
    LET positive == ~startsWith(input, "-")
        body == IF positive THEN input ELSE Slice(input, 1)
        hex == Slice(body, 2)
        n == PrefixLen(hex, isHexDigit)
        digits == SubSeq(hex, 1, n)
    IN  IF ~startsWith(body, "0x") THEN LexUndefined
        ELSE IF ~isHexDigit(CharAt0(hex)) THEN LexUndefined
        ELSE LexReturn(
                 IntLitToken(Number(NumMul(Num(HexValue(digits, 0)),
                                           IF positive THEN Num(1) ELSE Num(-1)))),
                 Slice(hex, n))

lexIntLit(input) ==
    IF lexIntLitDec(input).type # "undefined" THEN lexIntLitDec(input)
    ELSE lexIntLitHex(input)

\* the suffix is looked for at the start of input, not of rest
lexUintLit(input) ==
    LET lexed_ == lexIntLit(input)
    IN  IF lexed_.type = "undefined" THEN LexUndefined
        ELSE IF startsWith(input, "u") \/ startsWith(input, "U")
        THEN LexReturn(UintLitToken(lexed_.token.value), Slice(lexed_.rest, 1))
        ELSE LexUndefined

startsWithNewline(str) ==
    startsWith(str, "CRLF") \/ startsWith(str, "\r") \/ startsWith(str, "\n")

startsWithWhitespace(str) ==
    \/ startsWith(str, " ") \/ startsWith(str, "\t") \/ startsWith(str, "\n")
    \/ startsWith(str, "\f") \/ startsWith(str, "\r")

\* the while (true) loop of lexStringLitSingle.  Past the end of the input
\* no exit applies any more: input[0] is undefined and is appended to str,
\* and input stays empty.
RECURSIVE lexStringLitSingleWhile(_, _, _, _)
lexStringLitSingleWhile(input, str, escape, quote) ==
    IF input = <<>> THEN StringOverflow
    ELSE IF Head(input) = "\\" THEN lexStringLitSingleWhile(Tail(input), str, TRUE, quote)
    ELSE IF startsWithNewline(input) THEN LexUndefined
    ELSE IF Head(input) = quote /\ ~escape THEN LexReturn(str, Slice(input, 1))
    ELSE lexStringLitSingleWhile(Tail(input), Append(str, Head(input)), escape, quote)

lexStringLitSingle(input) ==
    IF startsWith(input, "\"") \/ startsWith(input, "'")
    THEN lexStringLitSingleWhile(Slice(input, 1), <<>>, FALSE, Head(input))
    ELSE LexUndefined

\* the while (true) loop of lexStringLitMulti
RECURSIVE lexStringLitMultiWhile(_, _, _)
lexStringLitMultiWhile(input, str, quote) ==
    IF IsPrefix(input, quote) THEN LexReturn(str, Slice(input, Len(str) + 3))
    ELSE IF input = <<>> THEN StringOverflow
    ELSE lexStringLitMultiWhile(Tail(input), Append(str, Head(input)), quote)

lexStringLitMulti(input) ==
    IF IsPrefix(input, <<"\"", "\"", "\"">>) \/ IsPrefix(input, <<"'", "'", "'">>)
    THEN lexStringLitMultiWhile(Slice(input, 3), <<>>, SubSeq(input, 1, 3))
    ELSE LexUndefined

\* String.raw applied to a template that holds only the substitution ${str}
\* yields str itself, so raw does not change the value
lexStringLit(input) ==
    LET raw == startsWith(input, "r") \/ startsWith(input, "R")
        body == IF raw THEN Slice(input, 1) ELSE input
        token(lexed_) ==
            IF lexed_.type = "return"
            THEN LexReturn(StringLitToken(String(lexed_.token)), lexed_.rest)
            ELSE lexed_
    IN  IF lexStringLitSingle(body).type # "undefined"
        THEN token(lexStringLitSingle(body))
        ELSE token(lexStringLitMulti(body))

lexByteLit(input) ==
    LET token(lexed_) ==
            IF lexed_.type = "return"
            THEN LexReturn(ByteLitToken(lexed_.token.value), lexed_.rest)
            ELSE lexed_
    IN  IF startsWith(input, "b") \/ startsWith(input, "B")
        THEN token(lexStringLit(Slice(input, 1)))
        ELSE LexUndefined

lexBoolLit(input) ==
    IF startsWith(input, "true") THEN LexReturn(BoolLitToken(Boolean(TRUE)), Slice(input, 4))
    ELSE IF startsWith(input, "false")
    THEN LexReturn(BoolLitToken(Boolean(FALSE)), Slice(input, 5))
    ELSE LexUndefined

lexNullLit(input) ==
    IF startsWith(input, "null") THEN LexReturn(NullLitToken, Slice(input, 4))
    ELSE LexUndefined

lexReserved(input) ==
    LET i == FindWord(RESERVED, input)
    IN  IF i = 0 THEN LexUndefined
        ELSE LexReturn(ReservedToken(RESERVED[i]), Slice(input, Len(Chars(RESERVED[i]))))

lexWhitespace(input) ==
    LET isWhitespace(c) == startsWithWhitespace(<<c>>)
    IN  IF ~startsWithWhitespace(input) THEN LexUndefined
        ELSE LexReturn(WhitespaceToken, Slice(input, PrefixLen(input, isWhitespace)))

\* The loop drops characters up to the first newline.  Without a newline
\* input becomes empty and stays empty, and the loop never exits.
lexComment(input) ==
    LET noNewline(i) == ~startsWithNewline(Slice(input, i - 1))
        skipped == PrefixLen([i \in DOMAIN input |-> i], noNewline)
        rest == Slice(input, skipped)
    IN  IF ~startsWith(input, "//") THEN LexUndefined
        ELSE IF skipped = Len(input) THEN LexForever
        ELSE LexReturn(CommentToken, Slice(rest, IF startsWith(rest, "CRLF") THEN 2 ELSE 1))

\* what the lex functions yield for input, in the order in which lexer
\* tries them
Lexers(input) ==
    <<lexWhitespace(input), lexComment(input), lexControl(input), lexOperator(input),
      lexReserved(input), lexUintLit(input), lexIntLit(input), lexStringLit(input),
      lexByteLit(input), lexBoolLit(input), lexNullLit(input), lexIdent(input)>>

\* the while loop of lexer, entered with tokens and input
RECURSIVE lexerWhile(_, _)
lexerWhile(tokens, input) ==
    LET isUndefined(lexed_) == lexed_.type = "undefined"
        isIgnored(token) == token.type \in {"WhitespaceToken", "CommentToken"}
        \* the result of the first lex function that does not return undefined
        try(all) ==
            IF PrefixLen(all, isUndefined) = Len(all)
            THEN LexerThrow("Unexpected character", Head(input))
            ELSE LET lexed_ == all[PrefixLen(all, isUndefined) + 1]
                 IN  IF lexed_.type = "throw" THEN LexerThrow(lexed_.message, "none")
                     ELSE IF lexed_.type = "forever" THEN LexerForever
                     ELSE lexerWhile(Append(tokens, lexed_.token), lexed_.rest)
    IN  IF input = <<>>
        THEN LexerReturn(SelectSeq(tokens, LAMBDA token : ~isIgnored(token)))
        ELSE try(Lexers(input))

lexer(input) == lexerWhile(<<>>, input)

(***************************************************************************)
(* The inputs of the model: activations and trees.                         *)
(***************************************************************************)
NameX == <<"x">>
NameY == <<"y">>
NameL == <<"l">>
NameM == <<"m">>
NameToString == ObjectPrototypeKeys[2]
StrA == <<"a">>
StrB == <<"b">>

EmptyActivation == [name \in {} |-> Undefined]

\* { x: IntValue(5), l: ListValue([IntValue(1), IntValue(2)]),
\*   m: MapValue({ a: IntValue(1) }) }
SomeActivation ==
    [name \in {NameX, NameL, NameM} |->
        CASE name = NameX -> IntValue(Number(Num(5)), <<0, 1>>)
          [] name = NameL ->
                ListValue(Array(<<IntValue(Number(Num(1)), <<0, 2, 1>>),
                                  IntValue(Number(Num(2)), <<0, 2, 2>>)>>), <<0, 2>>)
          [] name = NameM ->
                MapValue(Object([key \in {StrA} |-> IntValue(Number(Num(1)), <<0, 3, 1>>)]),
                         <<0, 3>>)]

Activations == {EmptyActivation, SomeActivation}

\* sequences over S of a length from lo to hi
SeqsOf(S, lo, hi) == UNION {[1..n -> S] : n \in lo..hi}

IntLits == {IntLit(Number(Num(i))) : i \in (-MaxInt)..MaxInt}

Idents == {Ident(NameX), Ident(NameY), Ident(NameL), Ident(NameM), Ident(NameToString)}

Scalars ==
    IntLits \cup {UintLit(Number(Num(1))), FloatLit(Number(Frac(3, 2))), StringLit(String(StrA)), StringLit(String(StrB)),
                  ByteLit(String(StrA)), BoolLit(Boolean(TRUE)), BoolLit(Boolean(FALSE)), NullLit}

\* list literals: up to two elements, and some nested ones
ListElems == {IntLit(Number(Num(1))), IntLit(Number(Num(2))), Ident(NameX)}

FlatLists == {ListExpr([i \in DOMAIN es |-> ExprOf(es[i])]) : es \in SeqsOf(ListElems, 0, 2)}

MapKeys == {StringLit(String(StrA)), StringLit(String(StrB))}
MapVals == {IntLit(Number(Num(1))), Ident(NameX)}

\* map literals: up to two entries
Maps ==
    {MapExpr([i \in DOMAIN es |-> MapInit(ExprOf(es[i][1]), ExprOf(es[i][2]))]) :
        es \in SeqsOf(MapKeys \X MapVals, 0, 2)}

NestedLists ==
    {ListExpr([i \in DOMAIN es |-> ExprOf(es[i])]) :
        es \in SeqsOf({ListExpr(<<ExprOf(IntLit(Number(Num(1))))>>),
                       ListExpr(<<ExprOf(Ident(NameX))>>),
                       MapExpr(<<MapInit(ExprOf(StringLit(String(StrA))), ExprOf(IntLit(Number(Num(1)))))>>),
                       MapExpr(<<MapInit(ExprOf(StringLit(String(StrA))), ExprOf(Ident(NameX)))>>)}, 1, 1)}

Lists == FlatLists \cup NestedLists

\* [1][5]: an index outside the list
OutOfRange == IndexExpr(ListExpr(<<ExprOf(IntLit(Number(Num(1))))>>), ExprOf(IntLit(Number(Num(5)))))

\* 1 / 0 and 1 % 0
DivByZero(op) ==
    MultExpr(<<UnaryExpr(IntLit(Number(Num(1))), <<>>), UnaryExpr(IntLit(Number(Num(0))), <<>>)>>, <<op>>)

Members == Scalars \cup Idents \cup Lists \cup Maps \cup {OutOfRange}

AtomTrees == {ExprOf(member) : member \in Members}

ArithOperands ==
    IntLits \cup {UintLit(Number(Num(1))), FloatLit(Number(Frac(3, 2))), StringLit(String(StrA)), Ident(NameX),
                  ListExpr(<<ExprOf(IntLit(Number(Num(1))))>>)}

\* operand lists: any two operands, or more than two integer literals
OperandLists ==
    SeqsOf(ArithOperands, 2, 2)
    \cup SeqsOf({IntLit(Number(Num(i))) : i \in 0..MaxInt}, 3, MaxOperands)

AddTrees ==
    {ExprOfAdd(AddExpr([i \in DOMAIN ms |-> MultOf(ms[i])], ops)) :
        <<ms, ops>> \in {p \in OperandLists \X SeqsOf({"+", "-"}, 1, MaxOperands - 1) :
                            Len(p[1]) = Len(p[2]) + 1}}

MultTrees ==
    {ExprOfMult(MultExpr([i \in DOMAIN ms |-> UnaryExpr(ms[i], <<>>)], ops)) :
        <<ms, ops>> \in {p \in OperandLists \X SeqsOf({"*", "/", "%"}, 1, MaxOperands - 1) :
                            Len(p[1]) = Len(p[2]) + 1}}

RelOps == {"<", "<=", ">=", ">", "==", "!=", "in"}

\* pairs of operands: any two scalars or identifiers under every operator,
\* any two list or map literals under == and !=, and any left operand with a
\* list, a map or a few other right operands under in
RelOperands ==
    ((Scalars \cup Idents) \X (Scalars \cup Idents) \X RelOps)
    \cup ((Lists \cup Maps) \X (Lists \cup Maps) \X {"==", "!=", "<"})
    \cup ((Scalars \cup Idents \cup Lists)
          \X (Lists \cup Maps \cup {Ident(NameL), Ident(NameM), IntLit(Number(Num(1))), OutOfRange})
          \X {"in"})

RelTrees ==
    {ExprOfRel(RelExpr(<<AddOf(left), AddOf(right)>>, <<op>>)) :
        <<left, right, op>> \in RelOperands}

IndexTrees ==
    {ExprOf(IndexExpr(member, ExprOf(index))) :
        <<member, index>> \in (Lists \cup Maps \cup Idents)
                              \X (IntLits \cup {IntLit(Number(Num(5))), UintLit(Number(Num(1))), FloatLit(Number(Frac(3, 2))),
                                                StringLit(String(StrA)), StringLit(String(StrB)),
                                                StringLit(String(NameToString)), StringLit(String(ObjectObject)),
                                                BoolLit(Boolean(TRUE))})}

Conds ==
    {ExprOf(BoolLit(Boolean(TRUE))), ExprOf(BoolLit(Boolean(FALSE))), ExprOf(IntLit(Number(Num(0)))), ExprOf(NullLit),
     ExprOf(Ident(NameX)), ExprOf(Ident(NameY)), ExprOf(OutOfRange),
     ExprOfRel(RelExpr(<<AddOf(IntLit(Number(Num(1)))), AddOf(IntLit(Number(Num(1))))>>, <<"==">>)),
     ExprOfRel(RelExpr(<<AddOf(IntLit(Number(Num(1)))), AddOf(IntLit(Number(Num(2))))>>, <<"==">>))}

Branches ==
    {ExprOf(IntLit(Number(Num(1)))), ExprOf(IntLit(Number(Num(2)))), ExprOf(StringLit(String(StrA))),
     ExprOf(Ident(NameY)), ExprOfMult(DivByZero("/"))}

TernaryTrees ==
    {TernaryExpr(cond, then, els) : <<cond, then, els>> \in Conds \X Branches \X Branches}
    \cup {TernaryExpr(cond, then, TernaryExpr(cond2, ExprOf(IntLit(Number(Num(1)))), ExprOf(IntLit(Number(Num(2)))))) :
            <<cond, then, cond2>> \in Conds \X {ExprOf(IntLit(Number(Num(0))))} \X Conds}

LogicOperands == {BoolLit(Boolean(TRUE)), BoolLit(Boolean(FALSE)), IntLit(Number(Num(1))), Ident(NameY)}

OrTrees ==
    {OrExpr([i \in DOMAIN ms |-> AndOf(ms[i])]) : ms \in SeqsOf(LogicOperands, 2, MaxOperands)}

AndTrees ==
    {ExprOfAnd(AndExpr([i \in DOMAIN ms |-> RelOf(ms[i])])) :
        ms \in SeqsOf(LogicOperands, 2, MaxOperands)}

UnaryTrees ==
    {ExprOfUnary(UnaryExpr(member, ops)) :
        <<member, ops>> \in (Scalars \cup Idents \cup {ListExpr(<<>>)})
                            \X (SeqsOf({"-"}, 1, 2) \cup SeqsOf({"!"}, 1, 2))}

CallNames == {Size, StartsWith, EndsWith, Contains, Matches, NameX, NameToString,
              ObjectPrototypeKeys[1], ObjectPrototypeKeys[3], ObjectPrototypeKeys[4],
              ObjectPrototypeKeys[8]}

CallArgs == {StringLit(String(StrA)), StringLit(String(StrA \o StrB)), IntLit(Number(Num(1))), Ident(NameY), Ident(NameL)}

CallTrees ==
    {ExprOf(FuncCallExpr(Ident(name), [i \in DOMAIN as |-> ExprOf(as[i])])) :
        <<name, as>> \in CallNames \X SeqsOf(CallArgs, 0, 2)}
    \cup {ExprOf(FuncCallExpr(IndexExpr(Ident(NameL), ExprOf(IntLit(Number(Num(0))))), <<>>))}

\* qualified calls receiver.method(args)
Receivers == {StringLit(String(StrA)), StringLit(String(StrA \o StrB)), Ident(NameL), Ident(NameM),
              ListExpr(<<ExprOf(IntLit(Number(Num(1))))>>)}

MethodCallTrees ==
    {ExprOf(MethodCall(member, method, [i \in DOMAIN as |-> ExprOf(as[i])])) :
        <<member, method, as>> \in Receivers \X {Size, StartsWith, Contains}
                                      \X SeqsOf({StringLit(String(StrA)), Ident(NameY)}, 0, 1)}

\* two siblings under one node, each of which may fail with an error of
\* its own: y is unbound (Unexpected identifier), x() is no builtin (Unknown
\* builtin), 1 has a value
SiblingMembers == {Ident(NameY), FuncCallExpr(Ident(NameX), <<>>), IntLit(Number(Num(1)))}

SiblingShapes == {"call", "list", "entry", "map", "index", "or", "and", "rel", "add", "mult"}

SiblingTree(shape, left, right) ==
    CASE shape = "call" ->
            ExprOf(FuncCallExpr(Ident(StartsWith), <<ExprOf(left), ExprOf(right)>>))
      [] shape = "list" -> ExprOf(ListExpr(<<ExprOf(left), ExprOf(right)>>))
      [] shape = "entry" -> ExprOf(MapExpr(<<MapInit(ExprOf(left), ExprOf(right))>>))
      [] shape = "map" ->
            ExprOf(MapExpr(<<MapInit(ExprOf(StringLit(String(StrA))), ExprOf(left)),
                             MapInit(ExprOf(StringLit(String(StrB))), ExprOf(right))>>))
      [] shape = "index" -> ExprOf(IndexExpr(left, ExprOf(right)))
      [] shape = "or" -> OrExpr(<<AndOf(left), AndOf(right)>>)
      [] shape = "and" -> ExprOfAnd(AndExpr(<<RelOf(left), RelOf(right)>>))
      [] shape = "rel" -> ExprOfRel(RelExpr(<<AddOf(left), AddOf(right)>>, <<"==">>))
      [] shape = "add" -> ExprOfAdd(AddExpr(<<MultOf(left), MultOf(right)>>, <<"+">>))
      [] shape = "mult" ->
            ExprOfMult(MultExpr(<<UnaryExpr(left, <<>>), UnaryExpr(right, <<>>)>>, <<"*">>))

SiblingTrees ==
    {SiblingTree(shape, left, right) :
        <<shape, left, right>> \in SiblingShapes \X SiblingMembers \X SiblingMembers}

Trees ==
    SiblingTrees \cup AtomTrees \cup AddTrees \cup MultTrees \cup RelTrees \cup IndexTrees \cup TernaryTrees
    \cup OrTrees \cup AndTrees \cup UnaryTrees \cup CallTrees \cup MethodCallTrees

(***************************************************************************)
(* The state machine: one call of interpreter on a tree and an activation. *)
(***************************************************************************)
NoResult == [id |-> <<0>>, kind |-> "none", value |-> [none |-> "none"]]

Init ==
    /\ pc = "ready"
    /\ program = <<>>
    /\ lexed = <<>>
    /\ expr \in Trees
    /\ activation \in Activations
    /\ result = NoResult

\* an evaluation that keeps its result in the activation it was given
InterpretStoring ==
    /\ pc = "ready"
    /\ result' = interpreter(expr, activation)
    /\ pc' = "done"
    /\ activation' = [name \in DOMAIN activation \cup {<<"_">>} |->
                         IF name = <<"_">> THEN interpreter(expr, activation)
                         ELSE activation[name]]
    /\ UNCHANGED <<program, lexed, expr>>

Interpret ==
    /\ pc = "ready"
    /\ result' = interpreter(expr, activation)
    /\ pc' = "done"
    /\ UNCHANGED <<program, lexed, expr, activation>>

\* the same tree evaluated against the same activation a second time
InterpretAgain ==
    /\ pc = "done"
    /\ result' = interpreter(expr, activation)
    /\ pc' = "again"
    /\ UNCHANGED <<program, lexed, expr, activation>>

Next == Interpret \/ InterpretAgain

Spec == Init /\ [][Next]_vars

TypeOK ==
    /\ pc \in {"ready", "done", "again"}
    /\ (pc = "ready") = (result = NoResult)

(***************************************************************************)
(* The parser as a state machine: one call of parser on a token sequence.  *)
(***************************************************************************)
MaxTokens == 3     \* every token sequence up to this length is an input

TokenAlphabet ==
    {IntLitToken(Number(Num(1))), IdentToken(NameX)}
    \cup {ControlToken(c) : c \in {"?", ":", ".", "(", ")", "[", "]", "{", "}", ","}}
    \cup {OperatorToken(o) : o \in {"||", "&&", "<", "+", "-", "*", "!"}}

\* the tokens of a source text, one TLA+ string per token: a digit is an
\* integer literal, a letter is an identifier, a quoted letter is a string
TokensOf(words) ==
    [i \in DOMAIN words |->
        CASE words[i] \in {"?", ":", ".", "(", ")", "[", "]", "{", "}", ","} ->
                ControlToken(words[i])
          [] words[i] \in {"0", "1", "2"} ->
                IntLitToken(Number(StringToNumber(<<words[i]>>)))
          [] words[i] \in {"x", "y", "l", "m"} -> IdentToken(<<words[i]>>)
          [] words[i] = "size" -> IdentToken(Size)
          [] words[i] \in {"'a'", "'b'"} -> StringLitToken(String(<<SubSeq(words[i], 2, 2)>>))
          [] OTHER -> OperatorToken(words[i])]

\* longer token sequences: lists, maps, suffixes, chains and ternaries
LongTokens ==
    {TokensOf(words) : words \in {
        <<"[", "1", ",", "2", "]">>, <<"[", ",", "1", ",", "2", "]">>,
        <<"[", ",", "1", "]">>, <<"[", ",", "1", ",", "]">>, <<"[", "1", ",", "]">>,
        <<"[", ",", "1", ",", ",", "]">>, <<"[", ",", ",", "1", "]">>,
        <<"{", "x", ":", "1", "}">>, <<"{", ",", "x", ":", "1", "}">>,
        <<"{", ",", "x", ":", "1", ",", "y", ":", "2", "}">>,
        <<"{", "x", ":", "1", ",", "y", ":", "2", "}">>,
        <<"{", ",", "x", ":", "1", ",", "}">>, <<"{", ",", "x", "1", "}">>,
        <<"l", "[", "0", "]">>, <<"l", "[", "0", "]", "[", "1", "]">>,
        <<"size", "(", "l", ")">>, <<"size", "(", ",", "l", ")">>,
        <<"x", "(", "1", ",", "2", ")">>, <<"l", ".", "size", "(", ")">>,
        <<"l", "[", "0", "]", "(", "1", ")">>, <<"(", "l", ")", "[", "0", "]">>,
        <<"x", "<", "y", "<", "l">>, <<"x", "<", "y", "==", "l">>,
        <<"x", "<=", "y", ">", "1">>, <<"x", "in", "l", "in", "m">>,
        <<"(", "x", "<", "y", ")", "<", "l">>, <<"x", "<", "(", "y", "<", "l", ")">>,
        <<"x", "<", "y", "&&", "y", "<", "l">>, <<"x", "+", "1", "<", "y", "*", "2">>,
        <<"1", "?", "2", ":", "0">>, <<"1", "?", "2", ":", "0", "?", "1", ":", "2">>,
        <<"1", "?", "2", "0">>, <<"1", "?", "2", ":", "0", "1">>,
        <<"1", "+", "2", "-", "0">>, <<"1", "*", "2", "/", "1", "%", "2">>,
        <<"1", "+", "2", "*", "0">>, <<"!", "!", "!", "x">>, <<"-", "-", "!", "x">>,
        <<"1", "||", "2", "||", "0">>, <<"1", "&&", "2", "||", "0", "&&", "1">>,
        <<"(", "(", "1", ")", ")">>, <<"(", "1", "+", "2", ")", "*", "2">>,
        <<"(", "1", "?", "2", ")">>, <<"'a'", "in", "[", ",", "'a'", "]">>,
        <<"1", "+", "2", "0">>, <<"(", "1", ")", "(", "2", ")">>,
        <<"1", "+", "2", ")">>, <<"x", "y", "l", "m">>}}

TokenInputs == SeqsOf(TokenAlphabet, 0, MaxTokens) \cup LongTokens

NoExpr == ExprOf(NullLit)

InitParser ==
    /\ pc = "parser"
    /\ program = <<>>
    /\ lexed \in TokenInputs
    /\ expr = NoExpr
    /\ activation = EmptyActivation
    /\ result = NoResult

Parser ==
    /\ pc = "parser"
    /\ result' = parser(lexed)
    /\ pc' = "parsed"
    /\ UNCHANGED <<program, lexed, expr, activation>>

NextParser == Parser

SpecParser == InitParser /\ [][NextParser]_vars

(***************************************************************************)
(* The lexer run on its own, as testLexer runs it: the state holds the     *)
(* input in program, and result receives what lexer returns or throws.     *)
(* A call that never returns leaves pc at "lexing".                        *)
(***************************************************************************)
MaxChars == 3

\* characters that reach every lex function
CharAlphabet ==
    {"0", "1", "u", "e", "x", "b", ".", "-", "<", ">", "=", "!", "|", "&", "/",
     "\"", "'", "\\", "\n", " ", "(", "#"}

\* longer inputs: keywords, literals, comments, operators between operands
LongInputs ==
    { Chars("true"), Chars("false"), Chars("null"), Chars("in"), Chars("if"),
      Chars("while"), <<"i", "n", "d", "e", "x">>, <<"_", "a", "1">>,
      <<"i", "n", "p", "u", "t">>, <<"f", "o", "r", "m", "a", "t">>,
      <<"n", "u", "l", "l", "a", "b", "l", "e">>,
      <<"t", "r", "u", "e", "V", "a", "l", "u", "e">>, <<"m", "y", "N", "u", "m">>,
      <<"1", " ", "+", " ", "2">>, <<"[", "1", ",", "2", "]">>,
      <<"0", "x", "1", "F">>, <<"-", "0", "x", "1", "F">>, <<"-", "1", "2">>,
      <<"1", "U">>, <<"1", "2", "u">>, <<"1", "2", "U">>,
      <<"2", ".", "0">>, <<"1", "2", ".", "5">>, <<"1", "e", "5">>, <<"1", "E", "5">>,
      <<"2", ".", "5", "e", "1">>, <<"1", "e", "-", "1">>,
      <<"x", "<", "=", "1">>, <<"x", ">", "=", "1">>, <<"x", "=", "=", "1">>,
      <<"x", "!", "=", "1">>, <<"x", "|", "|", "1">>, <<"x", "&", "&", "1">>,
      <<"x", " ", "<", "=", " ", "1">>,
      <<"\"", "a", "b", "\"">>, <<"'", "a", "b", "'">>, <<"\"", "a", "b">>,
      <<"\"", "a", "\\", "\"", "b", "\"">>, <<"\"", "a", "\\", "n", "\"">>,
      <<"\"", "a", "\n", "b", "\"">>,
      <<"r", "\"", "a", "\"">>, <<"b", "\"", "a", "\"">>, <<"B", "'", "a", "'">>,
      <<"\"", "\"", "\"", "a", "\"", "\"", "\"">>,
      <<"/", "/", " ", "c">>, <<"/", "/", "c", "\n", "1">>, <<"/", "/", "c", "\r", "\n", "1">>,
      <<"1", " ", "/", "/", "c">>, <<"1", "\t", "\f", "\r", "2">>,
      <<"x", " ", "?", " ", "1", " ", ":", " ", "2">>, <<"1", " ", "@">> }

LexerInputs == SeqsOf(CharAlphabet, 0, MaxChars) \cup LongInputs

InitLexer ==
    /\ pc = "lexer"
    /\ program \in LexerInputs
    /\ lexed = <<>>
    /\ expr = NoExpr
    /\ activation = EmptyActivation
    /\ result = NoResult

Lexer ==
    /\ pc = "lexer"
    /\ result' = IF lexer(program).type = "forever" THEN result ELSE lexer(program)
    /\ pc' = IF lexer(program).type = "forever" THEN "lexing" ELSE "lexed"
    /\ UNCHANGED <<program, lexed, expr, activation>>

NextLexer == Lexer

SpecLexer == InitLexer /\ [][NextLexer]_vars

(***************************************************************************)
(* The parser and the interpreter in a row, as testInterpreter runs them:  *)
(* the tokens are parsed, and the tree that parser returns is evaluated    *)
(* against the activation.  A parse that throws ends the run.              *)
(***************************************************************************)
MaxRun == 3     \* longest run of prefix operators

\* { x: BoolValue(false), y: BoolValue(true) }
BoolActivation ==
    [name \in {NameX, NameY} |->
        IF name = NameX THEN BoolValue(Boolean(FALSE), <<0, 1>>)
        ELSE BoolValue(Boolean(TRUE), <<0, 2>>)]

\* the tokens that are a whole member
MemberTokens ==
    {IntLitToken(Number(Num(i))) : i \in (-MaxInt)..MaxInt}
    \cup {UintLitToken(Number(Num(1))), FloatLitToken(Number(Frac(3, 2))),
          StringLitToken(String(StrA)), BoolLitToken(Boolean(TRUE)),
          BoolLitToken(Boolean(FALSE)), NullLitToken, IdentToken(NameX), IdentToken(NameY)}

\* a run of one prefix operator before a member
UnaryRuns ==
    {[i \in 1..n |-> OperatorToken(op)] \o <<member>> :
        <<n, op, member>> \in (1..MaxRun) \X {"!", "-"} \X MemberTokens}

InitPipeline ==
    /\ pc = "parser"
    /\ program = <<>>
    /\ lexed \in UnaryRuns \cup TokenInputs
    /\ expr = NoExpr
    /\ activation \in Activations \cup {BoolActivation}
    /\ result = NoResult

\* const parsed = parser(lexed)
PipelineParse ==
    /\ pc = "parser"
    /\ IF parser(lexed).type = "return"
       THEN /\ expr' = parser(lexed).node
            /\ result' = result
            /\ pc' = "ready"
       ELSE /\ expr' = expr
            /\ result' = parser(lexed)
            /\ pc' = "parsed"
    /\ UNCHANGED <<program, lexed, activation>>

NextPipeline == PipelineParse \/ Interpret

SpecPipeline == InitPipeline /\ [][NextPipeline]_vars

(***************************************************************************)
(* What the claims speak about: the shape of the tree that was evaluated,  *)
(* the values of its operands, and the results the specification states.   *)
(***************************************************************************)
Done == pc = "done"

\* paths of the nodes of a tree whose upper levels hold one operand each
RelPath == <<1, 1, 1>>
AddPath == <<1, 1, 1, 1>>
MultPath == <<1, 1, 1, 1, 1>>
MemberPath == <<1, 1, 1, 1, 1, 1, 1>>

\* the tree is a single relational / additive / multiplicative / member node
IsRelTree(e) ==
    /\ e.type = "OrExpr" /\ Len(e.exprs) = 1
    /\ Len(e.exprs[1].exprs) = 1
IsAddTree(e) ==
    /\ IsRelTree(e)
    /\ Len(e.exprs[1].exprs[1].exprs) = 1
IsMultTree(e) ==
    /\ IsAddTree(e)
    /\ Len(e.exprs[1].exprs[1].exprs[1].exprs) = 1
IsMemberTree(e) ==
    /\ IsMultTree(e)
    /\ Len(e.exprs[1].exprs[1].exprs[1].exprs[1].exprs) = 1
    /\ e.exprs[1].exprs[1].exprs[1].exprs[1].exprs[1].ops = <<>>

RelNode(e) == e.exprs[1].exprs[1]
AddNode(e) == RelNode(e).exprs[1]
MultNode(e) == AddNode(e).exprs[1]
MemberNode(e) == MultNode(e).exprs[1].member

\* the values of the operands of the relational / additive / multiplicative node
RelOperand(i) == evalAddExpr(RelNode(expr).exprs[i], activation, Append(RelPath, i))
AddOperand(i) == evalMultExpr(AddNode(expr).exprs[i], activation, Append(AddPath, i))
MultOperand(i) == evalUnaryExpr(MultNode(expr).exprs[i], activation, Append(MultPath, i))

IsValue(v) == v.kind \in ValueKinds

\* the result is the value Int(n) / Bool(b)
IsIntResult(n) == result.kind = "IntValue" /\ result.value = Number(n)
IsBoolResult(b) == result.kind = "BoolValue" /\ result.value = Boolean(b)

\* ((v1 o1 v2) o2 v3) ... : the operators from position i on applied to acc
RECURSIVE FoldLeft(_, _, _, _)
FoldLeft(values, ops, i, acc) ==
    IF i > Len(ops) THEN acc
    ELSE FoldLeft(values, ops, i + 1,
                  CASE ops[i] = "+" -> NumAdd(acc, values[i + 1])
                    [] ops[i] = "-" -> NumSub(acc, values[i + 1])
                    [] ops[i] = "*" -> NumMul(acc, values[i + 1])
                    [] ops[i] = "/" -> NumDiv(acc, values[i + 1])
                    [] ops[i] = "%" -> NumRem(acc, values[i + 1]))

\* structural equality as the specification defines it
RECURSIVE StructurallyEqual(_, _)
StructurallyEqual(left, right) ==
    IF left.kind = "ListValue" /\ right.kind = "ListValue"
    THEN /\ Len(left.value.array) = Len(right.value.array)
         /\ \A i \in DOMAIN left.value.array :
               StructurallyEqual(left.value.array[i], right.value.array[i])
    ELSE IF left.kind = "MapValue" /\ right.kind = "MapValue"
    THEN /\ DOMAIN left.value.object = DOMAIN right.value.object
         /\ \A key \in DOMAIN left.value.object :
               StructurallyEqual(left.value.object[key], right.value.object[key])
    ELSE IsValue(left) /\ IsValue(right) /\ StrictEquals(left, right)

TernaryCond == evalOrExpr(expr.cond, activation, <<1, 1>>)

(***************************************************************************)
(* C1.  A ternary node whose condition evaluates to Bool(true) yields the  *)
(* value of its then branch; one whose condition evaluates to Bool(false)  *)
(* yields the value of its else branch.                                    *)
(***************************************************************************)
C1_TernarySelectsBranch ==
    (Done /\ expr.type = "TernaryExpr" /\ TernaryCond.kind = "BoolValue")
    => IF TernaryCond.value.boolean
       THEN result = evalOrExpr(expr.then, activation, <<1, 2>>)
       ELSE result = evalExpr(expr.els, activation, <<1, 3>>)

C2_AdditiveNode ==
    /\ IsAddTree(expr)
    /\ Len(AddNode(expr).ops) >= 1
    /\ \A i \in DOMAIN AddNode(expr).exprs : AddOperand(i).kind = "IntValue"

(***************************************************************************)
(* C2.  An additive node with n >= 2 Int operands v1..vn and operators     *)
(* from {+, -} yields the Int ((v1 o1 v2) o2 v3) ... o(n-1) vn.            *)
(***************************************************************************)
C2_AdditiveFold ==
    (Done /\ C2_AdditiveNode)
    => IsIntResult(FoldLeft([i \in DOMAIN AddNode(expr).exprs |-> AddOperand(i).value.number],
                            AddNode(expr).ops, 1, AddOperand(1).value.number))

C3_MultiplicativeNode ==
    /\ IsMultTree(expr)
    /\ Len(MultNode(expr).ops) >= 1
    /\ \A i \in DOMAIN MultNode(expr).exprs : MultOperand(i).kind = "IntValue"
    /\ \A i \in DOMAIN MultNode(expr).ops :
          MultNode(expr).ops[i] \in {"/", "%"} => ~IsZero(MultOperand(i + 1).value.number)

(***************************************************************************)
(* C3.  A multiplicative node with n >= 2 Int operands, operators from     *)
(* {*, /, %} and every divisor non-zero yields the left-to-right fold of   *)
(* the operators over all the operands.                                    *)
(***************************************************************************)
C3_MultiplicativeFold ==
    (Done /\ C3_MultiplicativeNode)
    => IsIntResult(FoldLeft([i \in DOMAIN MultNode(expr).exprs |-> MultOperand(i).value.number],
                            MultNode(expr).ops, 1, MultOperand(1).value.number))

C4_IntComparison ==
    /\ IsRelTree(expr)
    /\ Len(RelNode(expr).ops) = 1
    /\ RelNode(expr).ops[1] \in {"<", "<=", ">", ">="}
    /\ RelOperand(1).kind = "IntValue"
    /\ RelOperand(2).kind = "IntValue"

(***************************************************************************)
(* C4.  For Int operands a and b the relational operators <, <=, >, >=     *)
(* yield Bool(a < b), Bool(a <= b), Bool(a > b), Bool(a >= b), also when   *)
(* a = b.                                                                  *)
(***************************************************************************)
C4_IntOrdering ==
    (Done /\ C4_IntComparison)
    => LET a == RelOperand(1).value.number
           b == RelOperand(2).value.number
           op == RelNode(expr).ops[1]
       IN  IsBoolResult(CASE op = "<" -> NumLess(a, b)
                          [] op = "<=" -> NumLess(a, b) \/ NumEq(a, b)
                          [] op = ">" -> NumLess(b, a)
                          [] op = ">=" -> NumLess(b, a) \/ NumEq(a, b))

\* the member below operand i of the relational node, and its path
RelMember(i) == RelNode(expr).exprs[i].exprs[1].exprs[1].member
RelMemberPath(i) == Append(RelPath, i) \o <<1, 1, 1>>

\* the key and value each entry of a map literal evaluates to
MapLiteralEntries(mapExpr, path) ==
    [i \in DOMAIN mapExpr.exprs |->
        [key |-> evalExpr(mapExpr.exprs[i].key, activation, Append(path, 2 * i - 1)),
         value |-> evalExpr(mapExpr.exprs[i].value, activation, Append(path, 2 * i))]]

DistinctKeys(entries) ==
    \A i, j \in DOMAIN entries :
        i # j => ~StructurallyEqual(entries[i].key, entries[j].key)

\* the same keys, and equal values under every key
SameEntries(left, right) ==
    /\ \A i \in DOMAIN left : \E j \in DOMAIN right :
          /\ StructurallyEqual(left[i].key, right[j].key)
          /\ StructurallyEqual(left[i].value, right[j].value)
    /\ \A j \in DOMAIN right : \E i \in DOMAIN left :
          StructurallyEqual(left[i].key, right[j].key)

C5_ListComparison ==
    /\ IsRelTree(expr)
    /\ RelNode(expr).ops = <<"==">>
    /\ RelOperand(1).kind = "ListValue"
    /\ RelOperand(2).kind = "ListValue"

(***************************************************************************)
(* C5.  Two List values compare == to Bool(true) exactly when they have    *)
(* the same length and equal values at every position, recursing into      *)
(* nested Lists and Maps; [1,2] == [1,2] is Bool(true).                    *)
(***************************************************************************)
C5_ListEquality ==
    (Done /\ C5_ListComparison)
    => IsBoolResult(StructurallyEqual(RelOperand(1), RelOperand(2)))

C6_MapComparison ==
    /\ IsRelTree(expr)
    /\ RelNode(expr).ops = <<"==">>
    /\ \A i \in {1, 2} :
          /\ RelNode(expr).exprs[i].ops = <<>>
          /\ RelNode(expr).exprs[i].exprs[1].ops = <<>>
          /\ RelNode(expr).exprs[i].exprs[1].exprs[1].ops = <<>>
          /\ RelMember(i).type = "MapExpr"
          /\ RelOperand(i).kind = "MapValue"
          /\ DistinctKeys(MapLiteralEntries(RelMember(i), RelMemberPath(i)))

(***************************************************************************)
(* C6.  Two Map values built from map literals compare == to Bool(true)    *)
(* exactly when the literals have the same set of keys and equal values    *)
(* under every key; {"a":1} == {"a":1} is Bool(true).                      *)
(***************************************************************************)
C6_MapEquality ==
    (Done /\ C6_MapComparison)
    => IsBoolResult(SameEntries(MapLiteralEntries(RelMember(1), RelMemberPath(1)),
                                MapLiteralEntries(RelMember(2), RelMemberPath(2))))

C7_Membership ==
    /\ IsRelTree(expr)
    /\ RelNode(expr).ops = <<"in">>
    /\ IsValue(RelOperand(1))
    /\ IsValue(RelOperand(2))

C7_RightIsMapLiteral ==
    /\ RelNode(expr).exprs[2].ops = <<>>
    /\ RelNode(expr).exprs[2].exprs[1].ops = <<>>
    /\ RelNode(expr).exprs[2].exprs[1].exprs[1].ops = <<>>
    /\ RelMember(2).type = "MapExpr"

(***************************************************************************)
(* C7.  left in right: for a List it is Bool(true) exactly when left       *)
(* equals some element; for a Map built from a map literal exactly when    *)
(* left equals one of the literal's keys; for any other kind of right      *)
(* operand the evaluation raises an error.                                 *)
(***************************************************************************)
C7_InOperator ==
    (Done /\ C7_Membership)
    => LET left == RelOperand(1)
           right == RelOperand(2)
       IN  CASE right.kind = "ListValue" ->
                   IsBoolResult(\E i \in DOMAIN right.value.array :
                                   StructurallyEqual(left, right.value.array[i]))
             [] right.kind = "MapValue" ->
                   C7_RightIsMapLiteral
                   => LET entries == MapLiteralEntries(RelMember(2), RelMemberPath(2))
                      IN  IsBoolResult(\E i \in DOMAIN entries :
                                          StructurallyEqual(left, entries[i].key))
             [] OTHER -> IsThrow(result)

C8_ZeroDivisor ==
    /\ IsMultTree(expr)
    /\ \A i \in DOMAIN MultNode(expr).exprs : IsNumeric(MultOperand(i))
    /\ \E i \in DOMAIN MultNode(expr).ops :
          /\ MultNode(expr).ops[i] \in {"/", "%"}
          /\ IsZero(MultOperand(i + 1).value.number)

(***************************************************************************)
(* C8.  A multiplicative node in which the right operand of a / or % is a  *)
(* numeric zero raises an error: 1 / 0 and 1 % 0 both fail.                *)
(***************************************************************************)
C8_DivisionByZeroFails == (Done /\ C8_ZeroDivisor) => IsThrow(result)

IndexContainer == evalMember(MemberNode(expr).member, activation, Append(MemberPath, 1))
IndexKey == evalExpr(MemberNode(expr).index, activation, Append(MemberPath, 2))

C9_IndexNode ==
    /\ IsMemberTree(expr)
    /\ MemberNode(expr).type = "IndexExpr"
    /\ ~IsThrow(IndexContainer)
    /\ ~IsThrow(IndexKey)

\* the key is an integer from 0 to length - 1
InRange(key, array) ==
    /\ IsInteger(key)
    /\ key.s = 1 \/ IsZero(key)
    /\ key.n < Len(array)

(***************************************************************************)
(* C9.  An index node yields the element at the position when the          *)
(* container is a List and the Int/Uint index is within 0..length-1, and   *)
(* raises an error when the index is outside that range; for a Map it      *)
(* raises an error when no stored key equals the index key.  It never      *)
(* evaluates to something that is not one of the Value kinds.              *)
(***************************************************************************)
C9_IndexInBounds ==
    (Done /\ C9_IndexNode)
    => /\ (IndexContainer.kind = "ListValue" /\ IndexKey.kind \in {"IntValue", "UintValue"})
          => IF InRange(IndexKey.value.number, IndexContainer.value.array)
             THEN result = IndexContainer.value.array[IndexKey.value.number.n + 1]
             ELSE IsThrow(result)
       /\ (/\ IndexContainer.kind = "MapValue"
           /\ IndexKey.kind \in {"StringValue", "IntValue", "UintValue"}
           /\ \A key \in DOMAIN IndexContainer.value.object :
                 ~StrictEquals(IndexKey, StringValue(String(key), <<0>>)))
          => IsThrow(result)
       /\ IsThrow(result) \/ IsValue(result)

C10_IdentNode ==
    /\ IsMemberTree(expr)
    /\ MemberNode(expr).type = "Ident"

(***************************************************************************)
(* C10.  An identifier that is not bound in the activation raises an       *)
(* error and never yields a default or null value; a bound identifier      *)
(* yields exactly the bound Value.                                         *)
(***************************************************************************)
C10_IdentLookup ==
    (Done /\ C10_IdentNode)
    => IF MemberNode(expr).name \in DOMAIN activation
       THEN result = activation[MemberNode(expr).name]
       ELSE IsThrow(result)

\* the tree is one call f(args) whose callee is an identifier
C11_CallNode ==
    /\ IsMemberTree(expr)
    /\ MemberNode(expr).type = "FuncCallExpr"
    /\ MemberNode(expr).member.type = "Ident"

C11_Callee == MemberNode(expr).member.name

C11_Args ==
    [i \in DOMAIN MemberNode(expr).exprs |->
        evalExpr(MemberNode(expr).exprs[i], activation, Append(MemberPath, i))]

\* the arity the specification gives each registered builtin
C11_Arity(name) == IF name = Size THEN 1 ELSE 2

\* the callee is not registered, or is called with a wrong number of arguments
C11_BadCall ==
    \/ C11_Callee \notin BUILTINS
    \/ Len(C11_Args) # C11_Arity(C11_Callee)

(***************************************************************************)
(* C11.  A call whose callee is not a registered builtin name, or is       *)
(* registered but called with a number of arguments different from its     *)
(* arity, raises an error at the call and invokes no builtin function:     *)
(* when the arguments evaluate without error, the call itself raises the   *)
(* error of an unknown builtin.                                            *)
(***************************************************************************)
C11_UnknownBuiltinFails ==
    (Done /\ C11_CallNode /\ C11_BadCall)
    => /\ IsThrow(result)
       /\ ~HasThrow(C11_Args) => result = Throw("Unknown builtin")

(***************************************************************************)
(* What the claims about the parser speak about.                           *)
(***************************************************************************)
Parsed == pc = "parsed"

\* a token that is a whole primary: a literal or an identifier
IsOperandToken(token) ==
    token.type \in {"IntLitToken", "UintLitToken", "FloatLitToken", "StringLitToken",
                    "ByteLitToken", "BoolLitToken", "NullLitToken", "IdentToken"}

\* the node of such a token
OperandOf(token) == parsePrimary(<<token>>).node

\* parser returned exactly this tree
ParsedTo(tree) == result.type = "return" /\ result.node = tree

\* parser failed with an error of its own
IsParseError == result = ParseThrow("Unexpected end of input")

\* the tokens that the top-level expression left unconsumed
C12_Complete == parseExpr(lexed).type = "return"
C12_Rest == parseExpr(lexed).tokens

(***************************************************************************)
(* C12.  parser fails with a parse error whenever tokens remain            *)
(* unconsumed after a complete top-level expression; it returns a tree     *)
(* only if the whole token sequence was consumed.                          *)
(***************************************************************************)
C12_TrailingTokensRejected ==
    (Parsed /\ C12_Complete)
    => /\ C12_Rest # <<>> => IsParseError
       /\ result.type = "return" => C12_Rest = <<>>

(***************************************************************************)
(* C13.  For every finite token sequence, the empty one and those where    *)
(* no primary can start included, parser terminates: it returns a tree or  *)
(* fails with a parse error, and no recursive call repeats without         *)
(* consuming a token.                                                      *)
(***************************************************************************)
C13_ParserTerminates ==
    Parsed => (result.type = "return" \/ IsParseError)

\* primary [ index ]   or   primary ( argument )
C14_Suffixed ==
    /\ Len(lexed) = 4
    /\ IsOperandToken(lexed[1])
    /\ IsOperandToken(lexed[3])
    /\ \/ lexed[2] = ControlToken("[") /\ lexed[4] = ControlToken("]")
       \/ lexed[2] = ControlToken("(") /\ lexed[4] = ControlToken(")")

\* primary [ index ] [ index ]
C14_SuffixedTwice ==
    /\ Len(lexed) = 7
    /\ IsOperandToken(lexed[1])
    /\ IsOperandToken(lexed[3])
    /\ IsOperandToken(lexed[6])
    /\ lexed[2] = ControlToken("[") /\ lexed[4] = ControlToken("]")
    /\ lexed[5] = ControlToken("[") /\ lexed[7] = ControlToken("]")

(***************************************************************************)
(* C14.  A primary followed by an index suffix [expr] parses to an index   *)
(* node over that primary, and a primary followed by a call suffix (args)  *)
(* parses to a function-call node over that primary; suffixes are applied  *)
(* left to right and their tokens are consumed by the member expression.   *)
(***************************************************************************)
C14_MemberSuffixes ==
    /\ (Parsed /\ C14_Suffixed)
       => /\ C12_Rest = <<>>
          /\ ParsedTo(ExprOf(IF lexed[2] = ControlToken("[")
                             THEN IndexExpr(OperandOf(lexed[1]),
                                            ExprOf(OperandOf(lexed[3])))
                             ELSE FuncCallExpr(OperandOf(lexed[1]),
                                               <<ExprOf(OperandOf(lexed[3]))>>)))
    /\ (Parsed /\ C14_SuffixedTwice)
       => /\ C12_Rest = <<>>
          /\ ParsedTo(ExprOf(IndexExpr(IndexExpr(OperandOf(lexed[1]),
                                                 ExprOf(OperandOf(lexed[3]))),
                                       ExprOf(OperandOf(lexed[6])))))

\* [ e ]   or   [ e , e ]: no comma before the first element
C15_List ==
    /\ Len(lexed) \in {3, 5}
    /\ lexed[1] = ControlToken("[") /\ lexed[Len(lexed)] = ControlToken("]")
    /\ \A i \in {2, 4} \cap DOMAIN lexed : IsOperandToken(lexed[i])
    /\ Len(lexed) = 5 => lexed[3] = ControlToken(",")

\* { k : v }   or   { k : v , k : v }
C15_Map ==
    /\ Len(lexed) \in {5, 9}
    /\ lexed[1] = ControlToken("{") /\ lexed[Len(lexed)] = ControlToken("}")
    /\ \A i \in {2, 4, 6, 8} \cap DOMAIN lexed : IsOperandToken(lexed[i])
    /\ \A i \in {3, 7} \cap DOMAIN lexed : lexed[i] = ControlToken(":")
    /\ Len(lexed) = 9 => lexed[5] = ControlToken(",")

\* f ( e , e )
C15_Call ==
    /\ Len(lexed) = 6
    /\ lexed[1].type = "IdentToken"
    /\ lexed[2] = ControlToken("(") /\ lexed[6] = ControlToken(")")
    /\ IsOperandToken(lexed[3]) /\ IsOperandToken(lexed[5])
    /\ lexed[4] = ControlToken(",")

(***************************************************************************)
(* C15.  parser accepts a bracketed list literal whose elements are        *)
(* separated by single commas with no comma before the first element, and  *)
(* produces a list node holding the elements in source order; the same     *)
(* holds for the argument list of a call and, with key:value pairs, for a  *)
(* map literal.                                                            *)
(***************************************************************************)
C15_CommaSeparated ==
    /\ (Parsed /\ C15_List)
       => ParsedTo(ExprOf(ListExpr([i \in 1..(Len(lexed) \div 2) |->
                                       ExprOf(OperandOf(lexed[2 * i]))])))
    /\ (Parsed /\ C15_Map)
       => ParsedTo(ExprOf(MapExpr([i \in 1..(Len(lexed) \div 4) |->
                                      MapInit(ExprOf(OperandOf(lexed[4 * i - 2])),
                                              ExprOf(OperandOf(lexed[4 * i])))])))
    /\ (Parsed /\ C15_Call)
       => ParsedTo(ExprOf(FuncCallExpr(OperandOf(lexed[1]),
                                       <<ExprOf(OperandOf(lexed[3])),
                                         ExprOf(OperandOf(lexed[5]))>>)))

\* a r b r c: two relational operators at the same nesting level
C16_Chained ==
    /\ Len(lexed) = 5
    /\ \A i \in {1, 3, 5} : IsOperandToken(lexed[i])
    /\ \A i \in {2, 4} : matchesOperatorToken(lexed[i], RelOps)

(***************************************************************************)
(* C16.  A token sequence with two relational operators at the same        *)
(* nesting level, such as a < b < c, is rejected with a parse error; it    *)
(* is neither read as a chained comparison nor accepted as the comparison  *)
(* of its first two operands.                                              *)
(***************************************************************************)
C16_ChainedRelationRejected ==
    (Parsed /\ C16_Chained) => IsParseError

\* the call of lexer on program has returned or thrown
Lexed == pc = "lexed"

\* lexer returned exactly these tokens
LexedTo(tokens) == result = LexerReturn(tokens)

\* lexer failed with the error for a character that no lex function accepts
IsLexError == result.type = "throw" /\ result.message = "Unexpected character"

\* every character of str is a decimal digit, and there is at least one
AllDigits(str) == str # <<>> /\ \A i \in DOMAIN str : isDigit(str[i])

(***************************************************************************)
(* C17.  For every finite input string, lexer terminates: it either        *)
(* returns a token sequence or fails with the error for the offending      *)
(* character.  This holds also for inputs that end inside a quoted string  *)
(* literal, that contain a backslash inside a quoted string literal, or    *)
(* that end inside a // comment with no final newline.                     *)
(***************************************************************************)
C17_LexerTerminates ==
    /\ pc # "lexing"
    /\ Lexed => (result.type = "return" \/ IsLexError)

TwoCharOperators == {"||", "&&", "<=", ">=", "==", "!="}

(***************************************************************************)
(* C18.  Each two-character operator in the input (||, &&, <=, >=, ==,     *)
(* !=) lexes to exactly one operator token carrying both characters, alone *)
(* and between two operands; it is never split into a one-character        *)
(* operator token followed by another token or an error.                   *)
(***************************************************************************)
C18_TwoCharOperators ==
    \A op \in TwoCharOperators :
        /\ (pc # "lexer" /\ program = Chars(op)) => LexedTo(<<OperatorToken(op)>>)
        /\ (pc # "lexer" /\ program = <<"x">> \o Chars(op) \o <<"1">>)
           => LexedTo(<<IdentToken(<<"x">>), OperatorToken(op),
                        IntLitToken(Number(Num(1)))>>)

\* digits followed by u or U
C19_Unsigned ==
    /\ Len(program) >= 2
    /\ program[Len(program)] \in {"u", "U"}
    /\ AllDigits(SubSeq(program, 1, Len(program) - 1))

(***************************************************************************)
(* C19.  An integer literal immediately followed by u or U lexes to        *)
(* exactly one unsigned-integer token whose value is the integer; the      *)
(* suffix character is consumed and produces no token of its own.          *)
(***************************************************************************)
C19_UintSuffix ==
    (pc # "lexer" /\ C19_Unsigned)
    => LexedTo(<<UintLitToken(Number(Num(
                    DecimalValue(SubSeq(program, 1, Len(program) - 1), 0))))>>)

\* digits . digits   or   digits e digits   or   digits e sign digits
C20_FloatText ==
    \E k \in DOMAIN program :
        /\ AllDigits(SubSeq(program, 1, k - 1))
        /\ \/ /\ program[k] = "."
              /\ AllDigits(Slice(program, k))
           \/ /\ program[k] \in {"e", "E"}
              /\ \/ AllDigits(Slice(program, k))
                 \/ /\ CharAt0(Slice(program, k)) \in {"+", "-"}
                    /\ AllDigits(Slice(program, k + 1))

(***************************************************************************)
(* C20.  Input text of the form digits '.' digits (for example 2.0), or    *)
(* digits followed by an exponent, lexes to exactly one floating-point     *)
(* literal token; it is never lexed as an integer token followed by a '.'  *)
(* control token and another integer token.                                *)
(***************************************************************************)
C20_FloatLiteral ==
    (pc # "lexer" /\ C20_FloatText)
    => /\ Lexed
       /\ result.type = "return"
       /\ Len(result.tokens) = 1
       /\ result.tokens[1].type = "FloatLitToken"

\* the words that are not identifiers: reserved keywords, in, true, false, null
Keywords ==
    {Chars(RESERVED[i]) : i \in DOMAIN RESERVED}
        \cup {Chars("in"), Chars("true"), Chars("false"), Chars("null")}

\* program is one run of identifier characters and is no keyword
C21_IdentRun ==
    /\ program # <<>>
    /\ isIdentStart(program[1])
    /\ \A i \in DOMAIN program : isIdentPart(program[i])
    /\ program \notin Keywords

(***************************************************************************)
(* C21.  Every maximal run of identifier characters that is not exactly a  *)
(* reserved keyword, in, true, false or null lexes to exactly one          *)
(* identifier token carrying the whole run, also when the run begins with  *)
(* one of those words (for example input, format, nullable, trueValue).    *)
(***************************************************************************)
C21_IdentifierWhole ==
    (pc # "lexer" /\ C21_IdentRun) => LexedTo(<<IdentToken(program)>>)

C23_TakenThen ==
    /\ expr.type = "TernaryExpr"
    /\ TernaryCond.kind = "BoolValue"
    /\ TernaryCond.value.boolean
    /\ ~IsThrow(evalOrExpr(expr.then, activation, <<1, 2>>))

(***************************************************************************)
(* C23.  In a ternary node only the taken branch is evaluated: if the      *)
(* condition is Bool(true), interpreter returns the value of the then      *)
(* branch, also when evaluating the else branch would raise an error.      *)
(***************************************************************************)
C23_OnlyTakenBranch ==
    (Done /\ C23_TakenThen) => result = evalOrExpr(expr.then, activation, <<1, 2>>)

\* the else branch, had it been evaluated, would have raised
C23_Witness ==
    /\ Done
    /\ C23_TakenThen
    /\ IsThrow(evalExpr(expr.els, activation, <<1, 3>>))
    /\ ~IsThrow(result)

\* the values of the operands of the additive or multiplicative node at the
\* top of the tree
C24_Operands ==
    IF Len(AddNode(expr).ops) >= 1
    THEN [i \in DOMAIN AddNode(expr).exprs |-> AddOperand(i)]
    ELSE [i \in DOMAIN MultNode(expr).exprs |-> MultOperand(i)]

\* an additive or multiplicative node with two or more operands, all of
\* which have a value
C24_ArithmeticNode ==
    /\ IsAddTree(expr)
    /\ \/ Len(AddNode(expr).ops) >= 1
       \/ IsMultTree(expr) /\ Len(MultNode(expr).ops) >= 1
    /\ Len(C24_Operands) >= 2
    /\ \A i \in DOMAIN C24_Operands : IsValue(C24_Operands[i])

C24_Numeric(v) == v.kind \in {"IntValue", "UintValue", "FloatValue"}

(***************************************************************************)
(* C24.  For an additive or multiplicative node with two or more numeric   *)
(* operands, the kind of the result is Float if any operand is Float,      *)
(* otherwise Uint if every operand is Uint, otherwise Int; a node mixing   *)
(* numeric and non-numeric operands raises an error.                       *)
(***************************************************************************)
C24_Promotion ==
    (Done /\ C24_ArithmeticNode)
    => LET vs == C24_Operands
       IN  /\ (\A i \in DOMAIN vs : C24_Numeric(vs[i]))
              => result.kind =
                    IF \E i \in DOMAIN vs : vs[i].kind = "FloatValue" THEN "FloatValue"
                    ELSE IF \A i \in DOMAIN vs : vs[i].kind = "UintValue" THEN "UintValue"
                    ELSE "IntValue"
           /\ ((\E i \in DOMAIN vs : C24_Numeric(vs[i]))
               /\ (\E i \in DOMAIN vs : ~C24_Numeric(vs[i])))
              => IsThrow(result)

\* a Uint operand and a Float operand: the result is a Float
C24_Witness ==
    /\ Done
    /\ C24_ArithmeticNode
    /\ C24_Operands[1].kind = "UintValue"
    /\ C24_Operands[2].kind = "FloatValue"
    /\ result.kind = "FloatValue"

\* the tree is the node of a qualified call x.m(a1..an)
C25_QualifiedCall == expr \in MethodCallTrees

\* the method name m
C25_Method == MemberNode(MemberNode(expr).exprs[1]).name

\* the values of x, a1, ..., an
C25_Args ==
    [i \in DOMAIN MemberNode(expr).exprs |->
        IF i = 1 THEN evalMember(MemberNode(expr).member, activation, Append(MemberPath, 1))
        ELSE evalExpr(MemberNode(expr).exprs[i], activation, Append(MemberPath, i))]

(***************************************************************************)
(* C25.  Evaluating the call node that represents a qualified call         *)
(* x.m(a1..an) invokes the registry function named m with the argument     *)
(* list (value of x, values of a1..an), the same function a bare call      *)
(* m(x, a1..an) dispatches to; the method name m is not looked up as a     *)
(* variable in the activation.                                             *)
(***************************************************************************)
C25_QualifiedCallDispatch ==
    (Done /\ C25_QualifiedCall /\ ~HasThrow(C25_Args))
    => result = builtin(C25_Method, C25_Args, MemberPath)

\* the values of the operands of the logical-or node at the top of the tree
OrOperands ==
    [i \in DOMAIN expr.exprs |-> evalAndExpr(expr.exprs[i], activation, <<1, i>>)]

\* the values of the operands of the logical-and node below a single-operand
\* logical-or node
AndOperands ==
    [i \in DOMAIN expr.exprs[1].exprs |->
        evalRelExpr(expr.exprs[1].exprs[i], activation, <<1, 1, i>>)]

\* what a logical node with the operand values vs yields: or for a
\* disjunction, and otherwise a conjunction
C26_Holds(vs, or) ==
    IF Len(vs) = 1 THEN result = vs[1]
    ELSE IF \E i \in DOMAIN vs : vs[i].kind # "BoolValue" THEN IsThrow(result)
    ELSE IsBoolResult(IF or THEN \E i \in DOMAIN vs : vs[i].value.boolean
                      ELSE \A i \in DOMAIN vs : vs[i].value.boolean)

(***************************************************************************)
(* C26.  A logical-or or logical-and node with two or more operands        *)
(* evaluates every operand (an error in any operand makes the node fail    *)
(* even when an earlier operand already decides the result), raises an     *)
(* error if any operand's value is not Bool, and otherwise returns the     *)
(* Bool disjunction/conjunction of all operands; a node with a single      *)
(* operand returns that operand's value unchanged, whatever its kind.      *)
(***************************************************************************)
C26_EagerLogic ==
    (Done /\ expr.type = "OrExpr")
    => /\ C26_Holds(OrOperands, TRUE)
       /\ Len(expr.exprs) = 1 => C26_Holds(AndOperands, FALSE)

\* true || y with y unbound: the first operand decides, the second fails
C26_Witness ==
    /\ Done
    /\ expr.type = "OrExpr"
    /\ Len(expr.exprs) >= 2
    /\ OrOperands[1].kind = "BoolValue" /\ OrOperands[1].value.boolean
    /\ IsThrow(OrOperands[2])
    /\ IsThrow(result)

\* every relational, additive and multiplicative node of the tree holds one
\* operator fewer than operands, and every relational node at most one
RECURSIVE C27_Chains(_)
C27_Chains(node) ==
    CASE node.type = "TernaryExpr" ->
            C27_Chains(node.cond) /\ C27_Chains(node.then) /\ C27_Chains(node.els)
      [] node.type \in {"OrExpr", "AndExpr", "ListExpr"} ->
            \A i \in DOMAIN node.exprs : C27_Chains(node.exprs[i])
      [] node.type \in {"RelExpr", "AddExpr", "MultExpr"} ->
            /\ Len(node.ops) = Len(node.exprs) - 1
            /\ node.type = "RelExpr" => Len(node.ops) <= 1
            /\ \A i \in DOMAIN node.exprs : C27_Chains(node.exprs[i])
      [] node.type = "UnaryExpr" -> C27_Chains(node.member)
      [] node.type = "MapExpr" ->
            \A i \in DOMAIN node.exprs :
                C27_Chains(node.exprs[i].key) /\ C27_Chains(node.exprs[i].value)
      [] node.type = "IndexExpr" -> C27_Chains(node.member) /\ C27_Chains(node.index)
      [] node.type = "FuncCallExpr" ->
            /\ C27_Chains(node.member)
            /\ \A i \in DOMAIN node.exprs : C27_Chains(node.exprs[i])
      [] OTHER -> TRUE

(***************************************************************************)
(* C27.  In every tree returned by parser, each relational, additive and   *)
(* multiplicative node holds exactly one operator fewer than it holds      *)
(* operands, and a relational node holds at most one operator.             *)
(***************************************************************************)
C27_OperatorCounts ==
    (Parsed /\ result.type = "return") => C27_Chains(result.node)

\* a tree with an additive node of three operands below a relational node
C27_Witness ==
    /\ Parsed
    /\ result.type = "return"
    /\ IsAddTree(result.node)
    /\ Len(AddNode(result.node).exprs) = 3
    /\ Len(AddNode(result.node).ops) = 2

\* the tokens are a run of identical prefix operators before one member
C28_Run ==
    /\ Len(lexed) >= 2
    /\ IsOperandToken(lexed[Len(lexed)])
    /\ matchesOperatorToken(lexed[1], {"!", "-"})
    /\ \A i \in 1..(Len(lexed) - 1) : lexed[i] = lexed[1]

C28_Count == Len(lexed) - 1

\* the node of the member behind the run
C28_MemberNode ==
    LET token == lexed[Len(lexed)]
    IN  CASE token.type = "IntLitToken" -> IntLit(token.value)
          [] token.type = "UintLitToken" -> UintLit(token.value)
          [] token.type = "FloatLitToken" -> FloatLit(token.value)
          [] token.type = "StringLitToken" -> StringLit(token.value)
          [] token.type = "ByteLitToken" -> ByteLit(token.value)
          [] token.type = "BoolLitToken" -> BoolLit(token.value)
          [] token.type = "NullLitToken" -> NullLit
          [] token.type = "IdentToken" -> Ident(token.ident)

\* the value of the member behind the run
C28_Member == evalPrimary(C28_MemberNode, activation, MemberPath)

(***************************************************************************)
(* C28.  For a run of n identical prefix operators (all ! or all -)        *)
(* before a member, parser produces a unary node whose operator list has   *)
(* exactly n entries, and interpreter applies the operator exactly n       *)
(* times: n times ! on a Bool inverts it for odd n and leaves it for even  *)
(* n, and n times - on an Int negates it for odd n and leaves it for even  *)
(* n; so !!x equals x for every Bool x and --x equals x for every Int x.   *)
(***************************************************************************)
C28_RepeatedUnary ==
    (pc # "parser" /\ C28_Run)
    => /\ pc \in {"ready", "done"}
       /\ expr = ExprOfUnary(UnaryExpr(C28_MemberNode,
                                       [i \in 1..C28_Count |-> lexed[1].operator]))
       /\ (pc = "done" /\ C28_Member.kind = "BoolValue" /\ lexed[1].operator = "!")
          => IsBoolResult(IF C28_Count % 2 = 0 THEN C28_Member.value.boolean
                          ELSE ~C28_Member.value.boolean)
       /\ (pc = "done" /\ C28_Member.kind = "IntValue" /\ lexed[1].operator = "-")
          => IsIntResult(IF C28_Count % 2 = 0 THEN C28_Member.value.number
                         ELSE NumNeg(C28_Member.value.number))

\* !!x with x bound to Bool(false) yields Bool(false)
C28_Witness ==
    /\ pc = "done"
    /\ C28_Run
    /\ C28_Count = 2
    /\ lexed[3] = IdentToken(NameX)
    /\ activation = BoolActivation
    /\ IsBoolResult(FALSE)

\* what a sibling yields when it is evaluated on its own
C29_Alone(member) == evalMember(member, activation, MemberPath)

(***************************************************************************)
(* C29.  Sibling sub-expressions are evaluated in source order, left to    *)
(* right: for call arguments, list elements, map key/value pairs and the   *)
(* operands of a binary-chain node, if two or more siblings would fail,    *)
(* the error raised by interpreter is the one of the leftmost failing      *)
(* sibling; in an index node the container is evaluated before the index.  *)
(***************************************************************************)
C29_LeftToRight ==
    \A shape \in SiblingShapes : \A left \in SiblingMembers : \A right \in SiblingMembers :
        (Done /\ expr = SiblingTree(shape, left, right))
        => /\ IsThrow(C29_Alone(left)) => result = C29_Alone(left)
           /\ (~IsThrow(C29_Alone(left)) /\ IsThrow(C29_Alone(right)))
              => result = C29_Alone(right)

\* startsWith(y, x()): both arguments fail, the error is that of y
C29_Witness ==
    /\ Done
    /\ expr = SiblingTree("call", Ident(NameY), FuncCallExpr(Ident(NameX), <<>>))
    /\ C29_Alone(Ident(NameY)) = Throw("Unexpected identifier")
    /\ C29_Alone(FuncCallExpr(Ident(NameX), <<>>)) = Throw("Unknown builtin")
    /\ result = Throw("Unexpected identifier")

\* a unary node with at least one operator stands alone at the top
C30_Unary ==
    /\ IsMultTree(expr)
    /\ Len(MultNode(expr).exprs) = 1
    /\ MultNode(expr).exprs[1].ops # <<>>

C30_Ops == MultNode(expr).exprs[1].ops

\* the value of the member under the operators
C30_Member == evalMember(MemberNode(expr), activation, MemberPath)

\* the number a negated once for each of n operators
RECURSIVE C30_Negated(_, _)
C30_Negated(n, a) == IF n = 0 THEN a ELSE C30_Negated(n - 1, NumNeg(a))

(***************************************************************************)
(* C30.  One or more unary - operators on a Uint operand yield a value     *)
(* tagged Int, never Uint, holding the operand negated once per operator;  *)
(* - applied to a Bool, and ! applied to an Int, Uint or Float operand,    *)
(* raise an error.                                                         *)
(***************************************************************************)
C30_UnaryKinds ==
    (Done /\ C30_Unary /\ ~IsThrow(C30_Member))
    => /\ (C30_Member.kind = "UintValue" /\ \A i \in DOMAIN C30_Ops : C30_Ops[i] = "-")
          => /\ result.kind = "IntValue"
             /\ result.value = Number(C30_Negated(Len(C30_Ops), C30_Member.value.number))
       /\ (C30_Member.kind = "BoolValue" /\ \E i \in DOMAIN C30_Ops : C30_Ops[i] = "-")
          => IsThrow(result)
       /\ (/\ C30_Member.kind \in {"IntValue", "UintValue", "FloatValue"}
           /\ \E i \in DOMAIN C30_Ops : C30_Ops[i] = "!")
          => IsThrow(result)

\* -1u yields Int(-1)
C30_Witness ==
    /\ Done
    /\ C30_Unary
    /\ MemberNode(expr) = UintLit(Number(Num(1)))
    /\ C30_Ops = <<"-">>
    /\ result.kind = "IntValue"
    /\ result.value = Number(NumNeg(Num(1)))

====
